---- MODULE Spec2Model ----
(***************************************************************************)
(* Vehicle accident detection: the detection engine (detection.js), the    *)
(* sensor and audio monitors (sensors.js), the alert lifecycle (alert.js,  *)
(* kept as unnamed/part_000) and the emergency dispatcher (emergency.js).  *)
(*                                                                         *)
(* Units: time is in milliseconds (Date.now()); g-forces are in tenths of  *)
(* a g, so that the thresholds 2.5, 4.0, 6.0, 8.0 g are 25, 40, 60, 80.    *)
(*                                                                         *)
(* The browser runs one handler at a time (a single event loop), so every  *)
(* action below is one whole task: an event dispatched to its listeners,   *)
(* a timer callback, a settled promise, or a user action.  The handlers    *)
(* are operators from a program state (a record of every field) to the     *)
(* program state they leave behind; an action commits that record.         *)
(***************************************************************************)
EXTENDS Integers, Sequences, FiniteSets, TLC

VARIABLES
    now,                \* Date.now()
    \* SensorManager (sensors.js)
    isMonitoring,       \* sensorManager.isMonitoring
    callbacks,          \* sensorManager.callbacks.length
    impactForce,        \* sensorManager.sensorData.impactForce
    rotation,           \* sensorManager.sensorData.rotation
    \* AudioMonitor (sensors.js)
    audioIsMonitoring,  \* audioMonitor.isMonitoring
    audioCallbacks,     \* audioMonitor.callbacks.length
    audioPending,       \* startMonitoring calls waiting on getUserMedia
    audioLoops,         \* analyzeAudio loops kept alive by requestAnimationFrame
    \* AccidentDetector (detection.js)
    isActive,
    detectionHistory,
    lastImpactTime,
    highForceStartTime,
    sustainedHighForce,
    previousRotation,
    \* AlertHandler (alert.js)
    isAlertActive,
    countdownTimer,     \* the handle: TRUE when it names an interval
    countdownSeconds,
    currentSeverity,
    alertDetails,
    voiceRecognition,   \* the handle: TRUE when it names a recogniser
    shakeDetection,     \* the handle: TRUE when it names a listener
    alertAudioContext,
    beepInterval,       \* the handle: TRUE when it names an interval
    screen,
    \* the browser: what the handles name, and the pending callbacks
    intervals,          \* live countdown intervals, in creation order
    beeps,              \* live beep intervals (their due times)
    motionListeners,    \* devicemotion listeners, in registration order
    recognisers,        \* running speech recognisers
    resetTimers,        \* pending callbacks of cancelAlert's setTimeout
    gpsPending,         \* updateLocation calls waiting on the position
    \* EmergencyHandler (emergency.js)
    dispatches,         \* the sendAlert calls and how far each has run
    \* observation of the run
    session,            \* number of sessions showAlert has started
    requests,           \* the calls of showAlert, in order
    cancels,            \* the calls of cancelAlert, in order
    resetLog,           \* the deferred resets that have run, in order
    burst,              \* the burst of critical motion samples in progress
    sample,             \* the latest motion sample and how it was classified
    audio,              \* the latest audio frame and what it produced
    orientation,        \* the latest orientation sample and what it produced
    historyLog,         \* the events added to and shifted out of the history
    run,                \* the run of analysed samples at or above lowImpact
    voice,              \* the latest recognition result and what it produced
    events,             \* sensor events and user actions so far
    probe               \* input and result of a pure function under test

vars == << now, isMonitoring, callbacks, impactForce, rotation,
           audioIsMonitoring, audioCallbacks, audioPending, audioLoops,
           isActive, detectionHistory, lastImpactTime, highForceStartTime,
           sustainedHighForce, previousRotation,
           isAlertActive, countdownTimer, countdownSeconds, currentSeverity,
           alertDetails, voiceRecognition, shakeDetection, alertAudioContext,
           beepInterval, screen,
           intervals, beeps, motionListeners, recognisers, resetTimers,
           gpsPending, dispatches,
           session, requests, cancels, resetLog, burst, sample, audio,
           orientation, historyLog, run, voice, events, probe >>

---------------------------------------------------------------------------
(* Program constants.                                                      *)

lowImpact == 25
mediumImpact == 40
highImpact == 60
criticalImpact == 80
crashSoundLevel == 100
suddenRotation == 45
sustainedForceDuration == 200
HistoryLimit == 50
AlertCooldown == 10000
AudioCooldown == 5000
RecentImpactWindow == 2000
ResetDelay == 5000
TickPeriod == 1000
BeepPeriod == 2000
UrgentFrom == 10
shakeThreshold == 150
shakeTimeout == 500
CountdownLow == 60
CountdownMedium == 30
CountdownHigh == 20
CountdownCritical == 15

(* Bounds of the model.                                                    *)

StartTime == 20000          \* Date.now() when the page is loaded
Horizon == 17000            \* Spec follows the clock this far past StartTime
MaxEvents == 3              \* Spec: sensor events and user actions in a run
EngineHorizon == 11000      \* the same two bounds for SpecEngine
MaxEngineEvents == 3
CountdownHorizon == 32000   \* and for SpecCountdown
MaxCountdownEvents == 2

Steps == {1000}         \* the clock advances by one of these amounts

Undefined == "undefined"    \* a field that is not set
Null == << >>               \* no object: an object x is kept as <<x>>
NoProbe == [force |-> 0, duration |-> 0, out |-> Undefined]

---------------------------------------------------------------------------
(* The program state as one record.                                        *)

State ==
    [ now |-> now, isMonitoring |-> isMonitoring, callbacks |-> callbacks,
      impactForce |-> impactForce, rotation |-> rotation,
      audioIsMonitoring |-> audioIsMonitoring,
      audioCallbacks |-> audioCallbacks, audioPending |-> audioPending,
      audioLoops |-> audioLoops,
      isActive |-> isActive, detectionHistory |-> detectionHistory,
      lastImpactTime |-> lastImpactTime,
      highForceStartTime |-> highForceStartTime,
      sustainedHighForce |-> sustainedHighForce,
      previousRotation |-> previousRotation,
      isAlertActive |-> isAlertActive, countdownTimer |-> countdownTimer,
      countdownSeconds |-> countdownSeconds,
      currentSeverity |-> currentSeverity, alertDetails |-> alertDetails,
      voiceRecognition |-> voiceRecognition,
      shakeDetection |-> shakeDetection,
      alertAudioContext |-> alertAudioContext,
      beepInterval |-> beepInterval, screen |-> screen,
      intervals |-> intervals, beeps |-> beeps,
      motionListeners |-> motionListeners, recognisers |-> recognisers,
      resetTimers |-> resetTimers, gpsPending |-> gpsPending,
      dispatches |-> dispatches,
      session |-> session, requests |-> requests, cancels |-> cancels,
      resetLog |-> resetLog, burst |-> burst, sample |-> sample,
      audio |-> audio, orientation |-> orientation,
      historyLog |-> historyLog, run |-> run, voice |-> voice,
      events |-> events,
      probe |-> probe ]

Commit(S) ==
    /\ now' = S.now
    /\ isMonitoring' = S.isMonitoring
    /\ callbacks' = S.callbacks
    /\ impactForce' = S.impactForce
    /\ rotation' = S.rotation
    /\ audioIsMonitoring' = S.audioIsMonitoring
    /\ audioCallbacks' = S.audioCallbacks
    /\ audioPending' = S.audioPending
    /\ audioLoops' = S.audioLoops
    /\ isActive' = S.isActive
    /\ detectionHistory' = S.detectionHistory
    /\ lastImpactTime' = S.lastImpactTime
    /\ highForceStartTime' = S.highForceStartTime
    /\ sustainedHighForce' = S.sustainedHighForce
    /\ previousRotation' = S.previousRotation
    /\ isAlertActive' = S.isAlertActive
    /\ countdownTimer' = S.countdownTimer
    /\ countdownSeconds' = S.countdownSeconds
    /\ currentSeverity' = S.currentSeverity
    /\ alertDetails' = S.alertDetails
    /\ voiceRecognition' = S.voiceRecognition
    /\ shakeDetection' = S.shakeDetection
    /\ alertAudioContext' = S.alertAudioContext
    /\ beepInterval' = S.beepInterval
    /\ screen' = S.screen
    /\ intervals' = S.intervals
    /\ beeps' = S.beeps
    /\ motionListeners' = S.motionListeners
    /\ recognisers' = S.recognisers
    /\ resetTimers' = S.resetTimers
    /\ gpsPending' = S.gpsPending
    /\ dispatches' = S.dispatches
    /\ session' = S.session
    /\ requests' = S.requests
    /\ cancels' = S.cancels
    /\ resetLog' = S.resetLog
    /\ burst' = S.burst
    /\ sample' = S.sample
    /\ audio' = S.audio
    /\ orientation' = S.orientation
    /\ historyLog' = S.historyLog
    /\ run' = S.run
    /\ voice' = S.voice
    /\ events' = S.events
    /\ probe' = S.probe

(* Sequence helpers.                                                       *)

Front(s) == SubSeq(s, 1, Len(s) - 1)

RemoveAt(s, i) == SubSeq(s, 1, i - 1) \o SubSeq(s, i + 1, Len(s))

Tail1(s) == SubSeq(s, 2, Len(s))

---------------------------------------------------------------------------
(* AlertHandler (unnamed/part_000).                                        *)

\* getCountdownTime that always takes its fallback of 30
getCountdownTimeFallback(severity) == CountdownMedium

\* getCountdownTime: times[severity] || 30
getCountdownTime(severity) ==
    CASE severity = "low" -> CountdownLow
      [] severity = "medium" -> CountdownMedium
      [] severity = "high" -> CountdownHigh
      [] severity = "critical" -> CountdownCritical
      [] OTHER -> CountdownMedium

\* clearCountdown that drops the handle and leaves the interval running
clearCountdownKeepsInterval(S) == [S EXCEPT !.countdownTimer = FALSE]

\* clearCountdown: clearInterval on the interval the handle names (the one
\* created last), when the handle is set.
clearCountdown(S) ==
    IF S.countdownTimer
    THEN [S EXCEPT !.intervals = Front(S.intervals), !.countdownTimer = FALSE]
    ELSE S

\* startCountdown: let timeLeft = countdownSeconds; setInterval(..., 1000).
\* The handle is overwritten; total, ticks and cued record the closure's
\* history: its first value, the runs of its callback, and the values of
\* timeLeft at which a run played the urgent beep and vibrated.
startCountdown(S) ==
    [S EXCEPT !.intervals = Append(S.intervals,
                  [timeLeft |-> S.countdownSeconds,
                   due |-> S.now + TickPeriod,
                   session |-> S.session,
                   total |-> S.countdownSeconds,
                   ticks |-> 0, cued |-> {}]),
              !.countdownTimer = TRUE]

\* startVoiceRecognition, in a browser that has SpeechRecognition.
startVoiceRecognition(S) ==
    [S EXCEPT !.recognisers = S.recognisers + 1, !.voiceRecognition = TRUE]

\* stopVoiceRecognition
stopVoiceRecognition(S) ==
    IF S.voiceRecognition
    THEN [S EXCEPT !.recognisers = S.recognisers - 1,
                   !.voiceRecognition = FALSE]
    ELSE S

\* startShakeDetection: a new closure with lastShakeTime = 0 is added to the
\* devicemotion listeners.
startShakeDetection(S) ==
    [S EXCEPT !.motionListeners = Append(S.motionListeners,
                  [kind |-> "shake", id |-> S.session, lastShakeTime |-> 0]),
              !.shakeDetection = TRUE]

\* the listener the shakeDetection handle names: the shake listener added last
LastShake(L) ==
    CHOOSE i \in 1..Len(L) :
        /\ L[i].kind = "shake"
        /\ \A j \in (i + 1)..Len(L) : L[j].kind # "shake"

\* stopShakeDetection
stopShakeDetection(S) ==
    IF S.shakeDetection
    THEN [S EXCEPT !.motionListeners =
                       RemoveAt(S.motionListeners, LastShake(S.motionListeners)),
                   !.shakeDetection = FALSE]
    ELSE S

\* startContinuousBeeping: setInterval(playBeep, 2000), then playBeep(),
\* which opens alertAudioContext.
startContinuousBeeping(S) ==
    [S EXCEPT !.beeps = Append(S.beeps, S.now + BeepPeriod),
              !.beepInterval = TRUE,
              !.alertAudioContext = TRUE]

\* stopContinuousBeeping
stopContinuousBeeping(S) ==
    LET S1 == IF S.beepInterval
              THEN [S EXCEPT !.beeps = Front(S.beeps), !.beepInterval = FALSE]
              ELSE S
    IN  [S1 EXCEPT !.alertAudioContext = FALSE]

\* updateLocation: the position is awaited; the session goes on meanwhile.
updateLocation(S) == [S EXCEPT !.gpsPending = S.gpsPending + 1]

\* showAlert, past its guard
showAlertBody(S, severity, details) ==
    LET S1 == [S EXCEPT !.isAlertActive = TRUE,
                        !.currentSeverity = severity,
                        !.alertDetails = details,
                        !.countdownSeconds = getCountdownTime(severity),
                        !.screen = "alertScreen",
                        !.session = S.session + 1]
    IN  startContinuousBeeping(
            startShakeDetection(
                startVoiceRecognition(
                    startCountdown(
                        updateLocation(S1)))))

\* showAlert with its guard left out
showAlertNoGuard(S, severity, details) == showAlertBody(S, severity, details)

\* showAlert that lets a request replace the severity and details of the
\* session in progress
showAlertUpgrades(S, severity, details) ==
    IF S.isAlertActive
    THEN [S EXCEPT !.currentSeverity = severity, !.alertDetails = details]
    ELSE showAlertBody(S, severity, details)

\* showAlert
showAlert(S, severity, details) ==
    IF S.isAlertActive THEN S ELSE showAlertBody(S, severity, details)

\* the timers and listeners a session arms, as the browser holds them:
\* countdown intervals, beep intervals, shake listeners, recognisers
Armed(S) ==
    << Len(S.intervals), Len(S.beeps),
       Cardinality({i \in 1..Len(S.motionListeners) :
                       S.motionListeners[i].kind = "shake"}),
       S.recognisers >>

\* what a cancellation or an escalation leaves of the alert handler
HandlerView(S) ==
    [ isAlertActive |-> S.isAlertActive, countdownTimer |-> S.countdownTimer,
      voiceRecognition |-> S.voiceRecognition,
      shakeDetection |-> S.shakeDetection, beepInterval |-> S.beepInterval,
      intervals |-> Len(S.intervals), beeps |-> Len(S.beeps),
      shakes |-> Cardinality({i \in 1..Len(S.motionListeners) :
                                 S.motionListeners[i].kind = "shake"}),
      recognisers |-> S.recognisers, screen |-> S.screen,
      alertAudioContext |-> S.alertAudioContext,
      currentSeverity |-> S.currentSeverity,
      countdownSeconds |-> S.countdownSeconds,
      resetTimers |-> Len(S.resetTimers) ]

\* what the detection engine classifies with: the fields of accidentDetector
\* other than lastImpactTime
EngineView(S) ==
    [ isActive |-> S.isActive, detectionHistory |-> S.detectionHistory,
      sustainedHighForce |-> S.sustainedHighForce,
      highForceStartTime |-> S.highForceStartTime,
      previousRotation |-> S.previousRotation ]

\* cancelAlert, called by source ("manual", "voice" or "shake"), with its
\* setTimeout of delay ms
cancelAlertAfter(S, source, delay) ==
    LET S1 == stopContinuousBeeping(
                  stopShakeDetection(
                      stopVoiceRecognition(
                          clearCountdown(S))))
        S2 == [S1 EXCEPT !.isAlertActive = FALSE,
                         !.screen = "dashboard",
                         !.resetTimers = Append(S1.resetTimers,
                             [due |-> S.now + delay,
                              cancelled |-> S.now,
                              wasActive |-> S.isAlertActive])]
    IN  [S2 EXCEPT !.cancels = Append(S.cancels,
                       [source |-> source, time |-> S.now,
                        wasActive |-> S.isAlertActive,
                        session |-> S.session,
                        lastImpactTime |-> S.lastImpactTime,
                        lastImpactTimeAfter |-> S2.lastImpactTime,
                        before |-> HandlerView(S),
                        after |-> HandlerView(S2),
                        engineKept |-> EngineView(S2) = EngineView(S)])]

\* cancelAlert with setTimeout(..., 0)
cancelAlertNoDelay(S, source) == cancelAlertAfter(S, source, 0)

\* cancelAlert: the reset of lastImpactTime is deferred by 5000 ms
cancelAlert(S, source) == cancelAlertAfter(S, source, ResetDelay)

\* sendEmergencyAlert without its call of stopShakeDetection
sendEmergencyAlertKeepsShake(S, via) ==
    LET S1 == stopContinuousBeeping(
                  stopVoiceRecognition(
                      clearCountdown(S)))
    IN  [S1 EXCEPT !.isAlertActive = FALSE,
                   !.dispatches = Append(S.dispatches,
                       [severity |-> S.currentSeverity,
                        details |-> S.alertDetails,
                        session |-> S.session,
                        wasActive |-> S.isAlertActive,
                        via |-> via,
                        time |-> S.now,
                        locationAvailable |-> Undefined,
                        location |-> Null,
                        notified |-> << >>,
                        reported |-> FALSE,
                        stage |-> "gps"]),
                   !.screen = "emergencyScreen"]

\* sendEmergencyAlert, reached from a countdown tick or from callEmergencyNow
\* (via).  emergencyHandler.sendAlert is an async function: the call returns
\* a promise at its first await, with the dispatch still to run, and never
\* throws; the promise is dropped.  reported is set by whatever tells the
\* user that this dispatch failed: the catch block the call stands in would,
\* if it ran.
sendEmergencyAlert(S, via) ==
    LET S1 == stopContinuousBeeping(
                  stopShakeDetection(
                      stopVoiceRecognition(
                          clearCountdown(S))))
    IN  [S1 EXCEPT !.isAlertActive = FALSE,
                   !.dispatches = Append(S.dispatches,
                       [severity |-> S.currentSeverity,
                        details |-> S.alertDetails,
                        session |-> S.session,
                        wasActive |-> S.isAlertActive,
                        via |-> via,
                        time |-> S.now,
                        locationAvailable |-> Undefined,
                        location |-> Null,
                        notified |-> << >>,
                        reported |-> FALSE,
                        stage |-> "gps"]),
                   !.screen = "emergencyScreen"]

---------------------------------------------------------------------------
(* AccidentDetector (detection.js).                                        *)

\* calculateSeverity with > where the code has >= for the critical threshold
calculateSeverityStrict(force, duration) ==
    IF \/ force > criticalImpact
       \/ (force >= highImpact /\ duration >= sustainedForceDuration)
    THEN "critical"
    ELSE IF force >= highImpact THEN "high"
    ELSE IF force >= mediumImpact THEN "medium"
    ELSE IF force >= lowImpact THEN "low"
    ELSE "none"

\* calculateSeverity with > where the code has >= for the duration
calculateSeverityLongerThan(force, duration) ==
    IF \/ force >= criticalImpact
       \/ (force >= highImpact /\ duration > sustainedForceDuration)
    THEN "critical"
    ELSE IF force >= highImpact THEN "high"
    ELSE IF force >= mediumImpact THEN "medium"
    ELSE IF force >= lowImpact THEN "low"
    ELSE "none"

\* calculateSeverity
calculateSeverity(force, duration) ==
    IF \/ force >= criticalImpact
       \/ (force >= highImpact /\ duration >= sustainedForceDuration)
    THEN "critical"
    ELSE IF force >= highImpact THEN "high"
    ELSE IF force >= mediumImpact THEN "medium"
    ELSE IF force >= lowImpact THEN "low"
    ELSE "none"

\* calculateCombinedSeverity with its two ifs in the other order
calculateCombinedSeverityLowFirst(impactEvent, soundLevel) ==
    LET s0 == impactEvent.severity
        s1 == IF soundLevel >= crashSoundLevel /\ s0 = "low"
              THEN "medium" ELSE s0
        s2 == IF soundLevel >= crashSoundLevel /\ s1 = "medium"
              THEN "high" ELSE s1
    IN  s2

\* calculateCombinedSeverity: two ifs in sequence, medium first
calculateCombinedSeverity(impactEvent, soundLevel) ==
    LET s0 == impactEvent.severity
        s1 == IF soundLevel >= crashSoundLevel /\ s0 = "medium"
              THEN "high" ELSE s0
        s2 == IF soundLevel >= crashSoundLevel /\ s1 = "low"
              THEN "medium" ELSE s1
    IN  s2

\* hasRecentImpact that accepts an event of any type
hasRecentImpactAnyType(history, currentTime, timeWindow) ==
    IF \E i \in 1..Len(history) :
           currentTime - history[i].timestamp <= timeWindow
    THEN <<history[CHOOSE i \in 1..Len(history) :
               /\ currentTime - history[i].timestamp <= timeWindow
               /\ \A j \in (i + 1)..Len(history) :
                      currentTime - history[j].timestamp > timeWindow]>>
    ELSE Null

\* hasRecentImpact with its loop running from the first event up
RECURSIVE scanOldestImpact(_, _, _, _)
scanOldestImpact(history, i, currentTime, timeWindow) ==
    IF i > Len(history) THEN Null
    ELSE IF /\ currentTime - history[i].timestamp <= timeWindow
            /\ history[i].type = "impact"
         THEN <<history[i]>>
         ELSE scanOldestImpact(history, i + 1, currentTime, timeWindow)

hasRecentImpactOldestFirst(history, currentTime, timeWindow) ==
    scanOldestImpact(history, 1, currentTime, timeWindow)

\* hasRecentImpact: the loop from the last event down to the first
RECURSIVE scanRecentImpact(_, _, _, _)
scanRecentImpact(history, i, currentTime, timeWindow) ==
    IF i < 1 THEN Null
    ELSE IF /\ currentTime - history[i].timestamp <= timeWindow
            /\ history[i].type = "impact"
         THEN <<history[i]>>
         ELSE scanRecentImpact(history, i - 1, currentTime, timeWindow)

hasRecentImpact(history, currentTime, timeWindow) ==
    scanRecentImpact(history, Len(history), currentTime, timeWindow)

\* every event added to the history since it was last emptied, and every
\* event taken out of it again, each in the order it happened
NoHistoryLog == [added |-> << >>, evicted |-> << >>]

\* addDetectionEvent that pops the newest event where the code shifts
addDetectionEventPops(S, event) ==
    LET h == Append(S.detectionHistory, event)
    IN  IF Len(h) > HistoryLimit
        THEN [S EXCEPT !.detectionHistory = SubSeq(h, 1, Len(h) - 1),
                       !.historyLog.added = Append(S.historyLog.added, event),
                       !.historyLog.evicted =
                           Append(S.historyLog.evicted, h[Len(h)])]
        ELSE [S EXCEPT !.detectionHistory = h,
                       !.historyLog.added = Append(S.historyLog.added, event)]

\* addDetectionEvent: push, and shift once when longer than 50
addDetectionEvent(S, event) ==
    LET h == Append(S.detectionHistory, event)
    IN  IF Len(h) > HistoryLimit
        THEN [S EXCEPT !.detectionHistory = Tail1(h),
                       !.historyLog.added = Append(S.historyLog.added, event),
                       !.historyLog.evicted =
                           Append(S.historyLog.evicted, h[1])]
        ELSE [S EXCEPT !.detectionHistory = h,
                       !.historyLog.added = Append(S.historyLog.added, event)]

\* the session in progress: its severity and details, its countdown and
\* what is left of it in the interval's closure
SessionView(S) ==
    [ currentSeverity |-> S.currentSeverity, alertDetails |-> S.alertDetails,
      countdownSeconds |-> S.countdownSeconds, intervals |-> S.intervals ]

\* the call alertHandler.showAlert(severity, details), and its record: S is
\* the state the sample found, S1 the state the call is made in
callShowAlert(S, S1, severity, details) ==
    LET S2 == showAlert(S1, severity, details)
    IN  [S2 EXCEPT !.requests = Append(S.requests,
            [time |-> S.now, severity |-> severity,
             details |-> details,
             wasActive |-> S.isAlertActive,
             dispatching |->
                 \E k \in 1..Len(S.dispatches) :
                     /\ S.dispatches[k].wasActive
                     /\ S.dispatches[k].stage \notin {"done", "failed"},
             sessionBefore |-> S.session,
             sessionAfter |-> S2.session,
             armedBefore |-> Armed(S),
             armedAfter |-> Armed(S2),
             resets |-> Len(S.resetLog),
             cancels |-> Len(S.cancels),
             kept |-> SessionView(S2) = SessionView(S),
             total |-> IF S2.session # S.session
                       THEN S2.countdownSeconds ELSE 0])]

\* triggerAccidentAlert that does not record the time of the request
triggerAccidentAlertNoStamp(S, severity, details) ==
    IF S.now - S.lastImpactTime < AlertCooldown
    THEN S
    ELSE IF severity = "low" \/ severity = "none"
         THEN S
         ELSE callShowAlert(S, S, severity, details)

\* triggerAccidentAlert with the audio path's 5000 ms as its cooldown
triggerAccidentAlertShortCooldown(S, severity, details) ==
    IF S.now - S.lastImpactTime < AudioCooldown
    THEN S
    ELSE LET S1 == [S EXCEPT !.lastImpactTime = S.now]
         IN  IF severity = "low" \/ severity = "none"
             THEN S1
             ELSE callShowAlert(S, S1, severity, details)

\* triggerAccidentAlert without the gate on low and none
triggerAccidentAlertNoSeverityGate(S, severity, details) ==
    IF S.now - S.lastImpactTime < AlertCooldown
    THEN S
    ELSE callShowAlert(S, [S EXCEPT !.lastImpactTime = S.now],
                       severity, details)

\* triggerAccidentAlert
triggerAccidentAlert(S, severity, details) ==
    IF S.now - S.lastImpactTime < AlertCooldown
    THEN S
    ELSE LET S1 == [S EXCEPT !.lastImpactTime = S.now]
         IN  IF severity = "low" \/ severity = "none"
             THEN S1
             ELSE callShowAlert(S, S1, severity, details)

\* checkRotationAnomaly
checkRotationAnomaly(S, rot) ==
    IF S.previousRotation = Null
    THEN [S EXCEPT !.previousRotation = <<rot>>]
    ELSE LET Abs(x) == IF x < 0 THEN -x ELSE x
             deltaBeta == Abs(rot.beta - S.previousRotation[1].beta)
             deltaGamma == Abs(rot.gamma - S.previousRotation[1].gamma)
             S1 == IF deltaBeta > suddenRotation \/ deltaGamma > suddenRotation
                   THEN addDetectionEvent(S,
                            [type |-> "rotation", severity |-> "high",
                             deltaBeta |-> deltaBeta,
                             deltaGamma |-> deltaGamma,
                             timestamp |-> S.now])
                   ELSE S
         IN  [S1 EXCEPT !.previousRotation = <<rot>>]

\* the details objects; location is the field updateLocation adds later
ImpactDetails(force, duration) ==
    [impactForce |-> force, duration |-> duration, location |-> Undefined]

CombinedDetails(level) ==
    [soundLevel |-> level, combined |-> TRUE, location |-> Undefined]

\* analyzeSensorData whose else branch does not stop the tracker
analyzeSensorDataKeepsTracker(S) ==
    IF ~S.isActive THEN S
    ELSE
    LET S1 ==
          IF S.impactForce >= lowImpact
          THEN LET start == IF S.sustainedHighForce
                            THEN S.highForceStartTime ELSE S.now
                   forceDuration == S.now - start
                   severity == calculateSeverity(S.impactForce, forceDuration)
                   Sa == [S EXCEPT !.highForceStartTime = start,
                                   !.sustainedHighForce = TRUE]
                   Sb == addDetectionEvent(Sa,
                            [type |-> "impact", severity |-> severity,
                             force |-> S.impactForce,
                             duration |-> forceDuration,
                             timestamp |-> S.now])
               IN  IF severity # "none"
                   THEN triggerAccidentAlert(Sb, severity,
                            ImpactDetails(S.impactForce, forceDuration))
                   ELSE Sb
          ELSE S
    IN  checkRotationAnomaly(S1, S.rotation)

\* analyzeSensorData(sensorData): sensorData is the sensor manager's one
\* record, so the force is the last one a motion event stored.
analyzeSensorData(S) ==
    IF ~S.isActive THEN S
    ELSE
    LET S1 ==
          IF S.impactForce >= lowImpact
          THEN LET start == IF S.sustainedHighForce
                            THEN S.highForceStartTime ELSE S.now
                   forceDuration == S.now - start
                   severity == calculateSeverity(S.impactForce, forceDuration)
                   Sa == [S EXCEPT !.highForceStartTime = start,
                                   !.sustainedHighForce = TRUE]
                   Sb == addDetectionEvent(Sa,
                            [type |-> "impact", severity |-> severity,
                             force |-> S.impactForce,
                             duration |-> forceDuration,
                             timestamp |-> S.now])
               IN  IF severity # "none"
                   THEN triggerAccidentAlert(Sb, severity,
                            ImpactDetails(S.impactForce, forceDuration))
                   ELSE Sb
          ELSE [S EXCEPT !.sustainedHighForce = FALSE]
    IN  checkRotationAnomaly(S1, S.rotation)

\* analyzeAudioData with >= where the code has > for its 5000 ms
analyzeAudioDataAtLeast(S, level) ==
    IF ~S.isActive THEN S
    ELSE IF level >= crashSoundLevel /\ S.now - S.lastImpactTime >= AudioCooldown
    THEN LET recentImpact ==
                 hasRecentImpact(S.detectionHistory, S.now, RecentImpactWindow)
         IN  IF recentImpact # Null
             THEN LET severity ==
                          calculateCombinedSeverity(recentImpact[1], level)
                      S1 == addDetectionEvent(S,
                               [type |-> "combined", severity |-> severity,
                                soundLevel |-> level, timestamp |-> S.now])
                  IN  triggerAccidentAlert(S1, severity, CombinedDetails(level))
             ELSE S
    ELSE S

\* analyzeAudioData that hands its request to showAlert itself
analyzeAudioDataUngated(S, level) ==
    IF ~S.isActive THEN S
    ELSE IF level >= crashSoundLevel /\ S.now - S.lastImpactTime > AudioCooldown
    THEN LET recentImpact ==
                 hasRecentImpact(S.detectionHistory, S.now, RecentImpactWindow)
         IN  IF recentImpact # Null
             THEN LET severity ==
                          calculateCombinedSeverity(recentImpact[1], level)
                      S1 == addDetectionEvent(S,
                               [type |-> "combined", severity |-> severity,
                                soundLevel |-> level, timestamp |-> S.now])
                  IN  callShowAlert(S, S1, severity,
                                    CombinedDetails(level))
             ELSE S
    ELSE S

\* analyzeAudioData
analyzeAudioData(S, level) ==
    IF ~S.isActive THEN S
    ELSE IF level >= crashSoundLevel /\ S.now - S.lastImpactTime > AudioCooldown
    THEN LET recentImpact ==
                 hasRecentImpact(S.detectionHistory, S.now, RecentImpactWindow)
         IN  IF recentImpact # Null
             THEN LET severity ==
                          calculateCombinedSeverity(recentImpact[1], level)
                      S1 == addDetectionEvent(S,
                               [type |-> "combined", severity |-> severity,
                                soundLevel |-> level, timestamp |-> S.now])
                  IN  triggerAccidentAlert(S1, severity, CombinedDetails(level))
             ELSE S
    ELSE S

\* start
start(S) ==
    LET S1 == [S EXCEPT !.isActive = TRUE, !.detectionHistory = << >>,
                        !.historyLog = NoHistoryLog]
        \* sensorManager.startMonitoring(callback)
        S2 == IF S1.isMonitoring THEN S1
              ELSE [S1 EXCEPT !.isMonitoring = TRUE,
                              !.callbacks = S1.callbacks + 1,
                              !.motionListeners = Append(S1.motionListeners,
                                  [kind |-> "sensor", id |-> 0,
                                   lastShakeTime |-> 0])]
        \* audioMonitor.startMonitoring(callback), up to its await
    IN  IF S2.audioIsMonitoring THEN S2
        ELSE [S2 EXCEPT !.audioPending = S2.audioPending + 1]

\* stop
stop(S) == [S EXCEPT !.isActive = FALSE]


---------------------------------------------------------------------------
(* The cancellation listeners (unnamed/part_000).                          *)

\* String.prototype.toLowerCase, on the letters A-Z; a transcript is a
\* sequence of characters
toLowerCaseChar(c) ==
    CASE c = "A" -> "a"
      [] c = "B" -> "b"
      [] c = "C" -> "c"
      [] c = "D" -> "d"
      [] c = "E" -> "e"
      [] c = "F" -> "f"
      [] c = "G" -> "g"
      [] c = "H" -> "h"
      [] c = "I" -> "i"
      [] c = "J" -> "j"
      [] c = "K" -> "k"
      [] c = "L" -> "l"
      [] c = "M" -> "m"
      [] c = "N" -> "n"
      [] c = "O" -> "o"
      [] c = "P" -> "p"
      [] c = "Q" -> "q"
      [] c = "R" -> "r"
      [] c = "S" -> "s"
      [] c = "T" -> "t"
      [] c = "U" -> "u"
      [] c = "V" -> "v"
      [] c = "W" -> "w"
      [] c = "X" -> "x"
      [] c = "Y" -> "y"
      [] c = "Z" -> "z"
      [] OTHER -> c

toLowerCase(t) == [i \in 1..Len(t) |-> toLowerCaseChar(t[i])]

\* String.prototype.includes
includes(t, k) ==
    \E i \in 0..(Len(t) - Len(k)) : SubSeq(t, i + 1, i + Len(k)) = k

cancelKeywords ==
    << <<"c", "a", "n", "c", "e", "l">>,
       <<"s", "t", "o", "p">>,
       <<"o", "k", "a", "y">>,
       <<"o", "k">>,
       <<"i", "'", "m", " ", "o", "k", "a", "y">>,
       <<"i", "'", "m", " ", "o", "k">>,
       <<"f", "i", "n", "e">>,
       <<"i", "'", "m", " ", "f", "i", "n", "e">>,
       <<"s", "a", "f", "e">>,
       <<"i", "'", "m", " ", "s", "a", "f", "e">>,
       <<"n", "o", " ", "e", "m", "e", "r", "g", "e", "n", "c", "y">>,
       <<"f", "a", "l", "s", "e", " ", "a", "l", "a", "r", "m">>,
       <<"m", "i", "s", "t", "a", "k", "e">> >>

\* the for loop of onresult without its break
RECURSIVE matchKeywordsNoBreak(_, _, _)
matchKeywordsNoBreak(S, transcript, i) ==
    IF i > Len(cancelKeywords) THEN S
    ELSE IF includes(transcript, cancelKeywords[i])
         THEN matchKeywordsNoBreak(cancelAlert(S, "voice"), transcript, i + 1)
         ELSE matchKeywordsNoBreak(S, transcript, i + 1)

\* the for loop of onresult: cancelAlert on the first keyword found, break
RECURSIVE matchKeywords(_, _, _)
matchKeywords(S, transcript, i) ==
    IF i > Len(cancelKeywords) THEN S
    ELSE IF includes(transcript, cancelKeywords[i])
         THEN cancelAlert(S, "voice")
         ELSE matchKeywords(S, transcript, i + 1)

\* voiceRecognition.onresult
onresult(S, said) == matchKeywords(S, toLowerCase(said), 1)

\* the shake closure with >= where the code compares gForce > shakeThreshold
shakeListenerAtLeast(S, id, gForce) ==
    LET L == S.motionListeners
        i == CHOOSE k \in 1..Len(L) : L[k].kind = "shake" /\ L[k].id = id
    IN  IF gForce >= shakeThreshold /\ S.now - L[i].lastShakeTime > shakeTimeout
        THEN cancelAlert(
                 [S EXCEPT !.motionListeners[i].lastShakeTime = S.now],
                 "shake")
        ELSE S

\* the closure startShakeDetection registered, for the listener with this id
shakeListener(S, id, gForce) ==
    LET L == S.motionListeners
        i == CHOOSE k \in 1..Len(L) : L[k].kind = "shake" /\ L[k].id = id
    IN  IF gForce > shakeThreshold /\ S.now - L[i].lastShakeTime > shakeTimeout
        THEN cancelAlert(
                 [S EXCEPT !.motionListeners[i].lastShakeTime = S.now],
                 "shake")
        ELSE S

---------------------------------------------------------------------------
(* SensorManager and AudioMonitor (sensors.js).                            *)

\* notifyCallbacks: every registered callback is analyzeSensorData
RECURSIVE notifyCallbacks(_, _)
notifyCallbacks(S, n) ==
    IF n = 0 THEN S ELSE notifyCallbacks(analyzeSensorData(S), n - 1)

\* handleMotion, for an event whose acceleration has magnitude gForce
handleMotion(S, gForce) ==
    IF ~S.isMonitoring THEN S
    ELSE notifyCallbacks([S EXCEPT !.impactForce = gForce], S.callbacks)

\* handleOrientation
handleOrientation(S, rot) ==
    IF ~S.isMonitoring THEN S
    ELSE notifyCallbacks([S EXCEPT !.rotation = rot], S.callbacks)

\* analyzeAudio: one frame, passed to every registered callback
RECURSIVE notifyAudio(_, _, _)
notifyAudio(S, level, n) ==
    IF n = 0 THEN S ELSE notifyAudio(analyzeAudioData(S, level), level, n - 1)

analyzeAudio(S, level) ==
    IF ~S.audioIsMonitoring THEN S
    ELSE notifyAudio(S, level, S.audioCallbacks)

\* A devicemotion event is dispatched to the listeners registered when the
\* dispatch starts, in registration order; a listener removed meanwhile is
\* not called (DOM event dispatch).
RECURSIVE dispatchMotion(_, _, _, _)
dispatchMotion(S, L, i, gForce) ==
    IF i > Len(L) THEN S
    ELSE LET l == L[i]
             live == \E k \in 1..Len(S.motionListeners) :
                         /\ S.motionListeners[k].kind = l.kind
                         /\ S.motionListeners[k].id = l.id
             S1 == IF ~live THEN S
                   ELSE IF l.kind = "sensor" THEN handleMotion(S, gForce)
                   ELSE shakeListener(S, l.id, gForce)
         IN  dispatchMotion(S1, L, i + 1, gForce)

---------------------------------------------------------------------------
(* EmergencyHandler.sendAlert (emergency.js), after the call has returned: *)
(* the position settles, then the automatic notifications, and only then   *)
(* the SMS, WhatsApp and call steps run.                                   *)

\* the placeholder sendAlert uses when the position is not to be had
PlaceholderLocation ==
    [latitude |-> 0, longitude |-> 0, accuracy |-> 0, unavailable |-> TRUE]

\* sendAlert whose catch notes the failure and throws again
sendAlertLocatedOrFail(S, i, ok) ==
    IF ok
    THEN [S EXCEPT !.dispatches[i].stage = "notify",
                   !.dispatches[i].locationAvailable = "yes",
                   !.dispatches[i].location = <<"position">>]
    ELSE [S EXCEPT !.dispatches[i].stage = "failed",
                   !.dispatches[i].locationAvailable = "no"]

\* await gpsTracker.getCurrentPosition(), resolved (ok) or rejected
sendAlertLocated(S, i, ok) ==
    [S EXCEPT !.dispatches[i].stage = "notify",
              !.dispatches[i].locationAvailable = IF ok THEN "yes" ELSE "no",
              !.dispatches[i].location =
                  IF ok THEN <<"position">> ELSE <<PlaceholderLocation>>]

\* await sendAutomaticNotifications(...), then sendSMS, sendWhatsApp,
\* initiateCall
sendAlertNotified(S, i) ==
    [S EXCEPT !.dispatches[i].stage = "done",
              !.dispatches[i].notified = << "sms", "whatsapp", "call" >>]

\* something past the await of the position throws outside sendAlert's try
\* blocks (prepareEmergencyMessage, updateEmergencyScreen, getEmergencyNumber
\* reading localStorage): the promise sendAlert returned is rejected, and
\* nothing was attached to it
sendAlertRejected(S, i) == [S EXCEPT !.dispatches[i].stage = "failed"]

---------------------------------------------------------------------------
(* The timers.                                                             *)

\* the interval's callback escalating when timeLeft reaches 0, not below it
countdownTickEarly(S, i) ==
    LET t == S.intervals[i]
        cue == t.timeLeft <= UrgentFrom /\ t.timeLeft > 0
        left == t.timeLeft - 1
        S1 == [S EXCEPT !.intervals[i] =
                            [t EXCEPT !.timeLeft = left,
                                      !.due = t.due + TickPeriod,
                                      !.ticks = t.ticks + 1,
                                      !.cued = IF cue
                                               THEN t.cued \cup {t.timeLeft}
                                               ELSE t.cued],
                        !.alertAudioContext =
                            IF cue THEN TRUE ELSE S.alertAudioContext]
    IN  IF left <= 0
        THEN sendEmergencyAlert(clearCountdown(S1),
                 [by |-> "tick", session |-> t.session,
                  ticks |-> t.ticks + 1, total |-> t.total,
                  cued |-> S1.intervals[i].cued])
        ELSE S1

\* the interval's callback without its last if: it counts down and never
\* escalates
countdownTickNoEscalation(S, i) ==
    LET t == S.intervals[i]
        cue == t.timeLeft <= UrgentFrom /\ t.timeLeft > 0
    IN  [S EXCEPT !.intervals[i] =
                      [t EXCEPT !.timeLeft = t.timeLeft - 1,
                                !.due = t.due + TickPeriod,
                                !.ticks = t.ticks + 1,
                                !.cued = IF cue
                                         THEN t.cued \cup {t.timeLeft}
                                         ELSE t.cued],
                  !.alertAudioContext =
                      IF cue THEN TRUE ELSE S.alertAudioContext]

\* the interval's callback with the urgency cue also at timeLeft = 0
countdownTickCueAtZero(S, i) ==
    LET t == S.intervals[i]
        cue == t.timeLeft <= UrgentFrom /\ t.timeLeft >= 0
        left == t.timeLeft - 1
        S1 == [S EXCEPT !.intervals[i] =
                            [t EXCEPT !.timeLeft = left,
                                      !.due = t.due + TickPeriod,
                                      !.ticks = t.ticks + 1,
                                      !.cued = IF cue
                                               THEN t.cued \cup {t.timeLeft}
                                               ELSE t.cued],
                        !.alertAudioContext =
                            IF cue THEN TRUE ELSE S.alertAudioContext]
    IN  IF left < 0
        THEN sendEmergencyAlert(clearCountdown(S1),
                 [by |-> "tick", session |-> t.session,
                  ticks |-> t.ticks + 1, total |-> t.total,
                  cued |-> S1.intervals[i].cued])
        ELSE S1

\* one run of the callback startCountdown gave to setInterval, for the
\* i-th live interval
countdownTick(S, i) ==
    LET t == S.intervals[i]
        cue == t.timeLeft <= UrgentFrom /\ t.timeLeft > 0
        left == t.timeLeft - 1
        S1 == [S EXCEPT !.intervals[i] =
                            [t EXCEPT !.timeLeft = left,
                                      !.due = t.due + TickPeriod,
                                      !.ticks = t.ticks + 1,
                                      !.cued = IF cue
                                               THEN t.cued \cup {t.timeLeft}
                                               ELSE t.cued],
                        !.alertAudioContext =
                            IF cue THEN TRUE ELSE S.alertAudioContext]
    IN  IF left < 0
        THEN sendEmergencyAlert(clearCountdown(S1),
                 [by |-> "tick", session |-> t.session,
                  ticks |-> t.ticks + 1, total |-> t.total,
                  cued |-> S1.intervals[i].cued])
        ELSE S1

\* one run of the beep interval's callback: playBeep
beepTick(S, i) ==
    [S EXCEPT !.beeps[i] = S.beeps[i] + BeepPeriod,
              !.alertAudioContext = TRUE]

\* the callback of cancelAlert's setTimeout, were it to reset the
\* sustained-force tracker as well
resetDetectionAndTracker(S) ==
    LET S1 == [S EXCEPT !.lastImpactTime = 0,
                        !.sustainedHighForce = FALSE,
                        !.highForceStartTime = 0,
                        !.resetTimers = Tail1(S.resetTimers)]
    IN  [S1 EXCEPT !.resetLog = Append(S.resetLog,
                       [time |-> S.now,
                        cancelled |-> S.resetTimers[1].cancelled,
                        wasActive |-> S.resetTimers[1].wasActive,
                        before |-> S.lastImpactTime,
                        after |-> S1.lastImpactTime,
                        engineKept |-> EngineView(S1) = EngineView(S)])]

\* the callback cancelAlert gave to setTimeout
resetDetection(S) ==
    LET S1 == [S EXCEPT !.lastImpactTime = 0,
                        !.resetTimers = Tail1(S.resetTimers)]
    IN  [S1 EXCEPT !.resetLog = Append(S.resetLog,
                       [time |-> S.now,
                        cancelled |-> S.resetTimers[1].cancelled,
                        wasActive |-> S.resetTimers[1].wasActive,
                        before |-> S.lastImpactTime,
                        after |-> S1.lastImpactTime,
                        engineKept |-> EngineView(S1) = EngineView(S)])]

\* the rest of updateLocation, once the position has settled
locationSettled(S, ok) ==
    [S EXCEPT !.gpsPending = S.gpsPending - 1,
              !.alertDetails.location =
                  IF ok THEN "position" ELSE S.alertDetails.location]

\* the rest of audioMonitor.startMonitoring, once getUserMedia has settled
audioStarted(S, ok) ==
    IF ok
    THEN [S EXCEPT !.audioPending = S.audioPending - 1,
                   !.audioIsMonitoring = TRUE,
                   !.audioCallbacks = S.audioCallbacks + 1,
                   !.audioLoops = S.audioLoops + 1]
    ELSE [S EXCEPT !.audioPending = S.audioPending - 1]

---------------------------------------------------------------------------
(* The burst of critical motion samples in progress, as an observer sees   *)
(* it: it starts at a critical sample that finds the detector active, the  *)
(* lifecycle idle and no cooldown in effect, it goes on while critical     *)
(* samples arrive less than 10000 ms after its first.  count is the number  *)
(* of showAlert calls from its first sample to its latest, severity the    *)
(* severity of the first of them, critical whether all of them were        *)
(* critical, resets the number of deferred resets that ran meanwhile, and  *)
(* samples the number of samples of the burst.                             *)

NoBurst ==
    [on |-> FALSE, start |-> 0, base |-> 0, count |-> 0,
     severity |-> Undefined, critical |-> TRUE, resetBase |-> 0,
     resets |-> 0, samples |-> 0]

burstAfter(S0, S1, gForce) ==
    IF gForce < criticalImpact THEN NoBurst
    ELSE LET b == IF S0.burst.on /\ S0.now - S0.burst.start < AlertCooldown
                  THEN S0.burst
                  ELSE IF /\ S0.isActive
                          /\ ~S0.isAlertActive
                          /\ S0.now - S0.lastImpactTime >= AlertCooldown
                       THEN [NoBurst EXCEPT !.on = TRUE, !.start = S0.now,
                                            !.base = Len(S0.requests),
                                            !.resetBase = Len(S0.resetLog)]
                       ELSE NoBurst
             n == Len(S1.requests) - b.base
         IN  IF b.on
             THEN [b EXCEPT !.count = n,
                            !.severity = IF n >= 1
                                         THEN S1.requests[b.base + 1].severity
                                         ELSE Undefined,
                            !.critical =
                                \A k \in (b.base + 1)..Len(S1.requests) :
                                    S1.requests[k].severity = "critical",
                            !.resets = Len(S1.resetLog) - b.resetBase,
                            !.samples = b.samples + 1]
             ELSE NoBurst

---------------------------------------------------------------------------
(* The latest motion sample, as an observer sees it: its force, the time   *)
(* since which every motion sample has been at or above lowImpact (on,     *)
(* since), how long that was when it arrived (sustained), the severity of  *)
(* the Impact event it appended, if any, whether it found no session       *)
(* active and the cooldown over (armed), the countdown of the session it   *)
(* started (total, 0 if it started none), whether it changed               *)
(* lastImpactTime (stamped), the number of showAlert calls it made         *)
(* (requested), and whether the last showAlert call before it, if any, was *)
(* at least 10000 ms old (quiet), and the number of cancelAlert calls the  *)
(* shake listeners made on it (shakes).                                    *)

NoSample ==
    [force |-> 0, on |-> FALSE, since |-> 0, sustained |-> 0,
     severity |-> Undefined, armed |-> FALSE, total |-> 0,
     stamped |-> FALSE, requested |-> 0, quiet |-> TRUE, shakes |-> 0]

sampleAfter(S0, S1, gForce) ==
    LET added == {k \in (Len(S0.historyLog.added) + 1)..
                            Len(S1.historyLog.added) :
                     S1.historyLog.added[k].type = "impact"}
        since == IF gForce >= lowImpact
                 THEN IF S0.sample.on THEN S0.sample.since ELSE S0.now
                 ELSE 0
    IN  [force |-> gForce,
         on |-> gForce >= lowImpact,
         since |-> since,
         sustained |-> IF gForce >= lowImpact THEN S0.now - since ELSE 0,
         severity |-> IF added = {} THEN Undefined
                      ELSE S1.historyLog.added[CHOOSE k \in added : TRUE]
                               .severity,
         armed |-> /\ ~S0.isAlertActive
                   /\ S0.now - S0.lastImpactTime >= AlertCooldown,
         total |-> IF S1.session # S0.session
                   THEN S1.countdownSeconds ELSE 0,
         stamped |-> S1.lastImpactTime # S0.lastImpactTime,
         requested |-> Len(S1.requests) - Len(S0.requests),
         quiet |-> \/ S0.requests = << >>
                   \/ S0.now - S0.requests[Len(S0.requests)].time
                          >= AlertCooldown,
         shakes |-> Len(S1.cancels) - Len(S0.cancels)]

---------------------------------------------------------------------------
(* The latest audio frame, as an observer sees it: its level, the Impact   *)
(* events the history held from the 2000 ms before it (impacts, oldest     *)
(* first) and how long before it the last of them was (age), whether the   *)
(* history held an older Impact event (older), how long before it          *)
(* lastImpactTime was (sinceRequest), the number of showAlert calls it     *)
(* made, and the events it appended.                                       *)

NoAudio ==
    [level |-> 0, impacts |-> << >>, age |-> 0, older |-> FALSE,
     sinceRequest |-> 0, requested |-> 0, combined |-> << >>]

RECURSIVE selectEvents(_, _, _, _)
selectEvents(history, i, type, from) ==
    IF i > Len(history) THEN << >>
    ELSE IF history[i].type = type /\ history[i].timestamp >= from
         THEN <<history[i]>> \o selectEvents(history, i + 1, type, from)
         ELSE selectEvents(history, i + 1, type, from)

audioAfter(S0, S1, level) ==
    LET impacts == selectEvents(S0.detectionHistory, 1, "impact",
                                S0.now - RecentImpactWindow)
    IN
    [level |-> level,
     impacts |-> impacts,
     age |-> IF impacts = << >> THEN 0
             ELSE S0.now - impacts[Len(impacts)].timestamp,
     older |-> \E i \in 1..Len(S0.detectionHistory) :
                  /\ S0.detectionHistory[i].type = "impact"
                  /\ S0.detectionHistory[i].timestamp
                         < S0.now - RecentImpactWindow,
     sinceRequest |-> S0.now - S0.lastImpactTime,
     requested |-> Len(S1.requests) - Len(S0.requests),
     combined |-> SubSeq(S1.historyLog.added,
                         Len(S0.historyLog.added) + 1,
                         Len(S1.historyLog.added))]

---------------------------------------------------------------------------
(* The samples the detector analysed, as an observer sees them: a sample   *)
(* is analysed when a motion or an orientation event hands the sensor      *)
(* record to analyzeSensorData while the detector is active.  on and since *)
(* follow the unbroken run of analysed samples with a force at or above    *)
(* lowImpact and the time of its first sample; impacts are the Impact      *)
(* events the latest analysed sample appended and requested the showAlert  *)
(* calls it made.                                                          *)

NoRun == [on |-> FALSE, since |-> 0, impacts |-> << >>, requested |-> 0]

runAfter(S0, S1) ==
    IF ~(S0.isActive /\ S0.isMonitoring /\ S0.callbacks > 0)
    THEN S0.run
    ELSE LET above == S1.impactForce >= lowImpact
         IN  [on |-> above,
              since |-> IF above
                        THEN IF S0.run.on THEN S0.run.since ELSE S0.now
                        ELSE 0,
              impacts |-> selectEvents(S1.historyLog.added,
                              Len(S0.historyLog.added) + 1, "impact", 0),
              requested |-> Len(S1.requests) - Len(S0.requests)]

---------------------------------------------------------------------------
(* The latest orientation sample, as an observer sees it: the number of    *)
(* showAlert calls it made and the events it appended, whether it was the  *)
(* first orientation sample received, whether the detector analysed it,    *)
(* and whether it differs from the orientation sample before it by more    *)
(* than suddenRotation in beta or in gamma.                                *)

NoOrientation ==
    [seen |-> FALSE, requested |-> 0, appended |-> << >>,
     first |-> FALSE, analysed |-> FALSE, exceeds |-> FALSE]

orientationAfter(S0, S1) ==
    LET Abs(x) == IF x < 0 THEN -x ELSE x
    IN  [seen |-> TRUE,
         requested |-> Len(S1.requests) - Len(S0.requests),
         appended |-> SubSeq(S1.detectionHistory,
                             Len(S0.detectionHistory) + 1,
                             Len(S1.detectionHistory)),
         first |-> ~S0.orientation.seen,
         analysed |-> S0.isActive /\ S0.isMonitoring /\ S0.callbacks > 0,
         exceeds |-> /\ S0.orientation.seen
                     /\ \/ Abs(S1.rotation.beta - S0.rotation.beta)
                               > suddenRotation
                        \/ Abs(S1.rotation.gamma - S0.rotation.gamma)
                               > suddenRotation]

---------------------------------------------------------------------------
(* The latest recognition result, as an observer sees it: the transcript   *)
(* and the number of cancelAlert calls onresult made on it.                *)

NoVoice == [seen |-> FALSE, said |-> << >>, cancelled |-> 0]

voiceAfter(S0, S1, said) ==
    [seen |-> TRUE, said |-> said,
     cancelled |-> Len(S1.cancels) - Len(S0.cancels)]

---------------------------------------------------------------------------
(* The inputs.                                                             *)

\* g-forces of motion events, in tenths of a g: calm, low, medium (5.2 g),
\* high, critical (9.0 g), a shake
Forces == {10, 30, 52, 70, 90, 160}

Rotations ==
    {[alpha |-> 0, beta |-> b, gamma |-> 0] : b \in {0, 90}}

Levels == {60, 105}

Transcripts ==
    { <<"I", "'", "m", " ", "O", "K">>, <<"h", "e", "l", "p">> }

NoDetails == [location |-> Undefined]

---------------------------------------------------------------------------
(* The state after the scripts have run: the constructors' values.         *)

InitProgram ==
    /\ now = StartTime
    /\ isMonitoring = FALSE
    /\ callbacks = 0
    /\ impactForce = 0
    /\ rotation = [alpha |-> 0, beta |-> 0, gamma |-> 0]
    /\ audioIsMonitoring = FALSE
    /\ audioCallbacks = 0
    /\ audioPending = 0
    /\ audioLoops = 0
    /\ isActive = FALSE
    /\ detectionHistory = << >>
    /\ lastImpactTime = 0
    /\ highForceStartTime = 0
    /\ sustainedHighForce = FALSE
    /\ previousRotation = Null
    /\ isAlertActive = FALSE
    /\ countdownTimer = FALSE
    /\ countdownSeconds = CountdownMedium
    /\ currentSeverity = "medium"
    /\ alertDetails = NoDetails
    /\ voiceRecognition = FALSE
    /\ shakeDetection = FALSE
    /\ alertAudioContext = FALSE
    /\ beepInterval = FALSE
    /\ screen = "dashboard"
    /\ intervals = << >>
    /\ beeps = << >>
    /\ motionListeners = << >>
    /\ recognisers = 0
    /\ resetTimers = << >>
    /\ gpsPending = 0
    /\ dispatches = << >>
    /\ session = 0
    /\ requests = << >>
    /\ cancels = << >>
    /\ resetLog = << >>
    /\ burst = NoBurst
    /\ sample = NoSample
    /\ audio = NoAudio
    /\ orientation = NoOrientation
    /\ historyLog = NoHistoryLog
    /\ run = NoRun
    /\ voice = NoVoice
    /\ events = 0

Init ==
    /\ InitProgram
    /\ probe = NoProbe

---------------------------------------------------------------------------
(* The actions: one per task of the event loop.                            *)

\* app: accidentDetector.start()
Start == Commit(start(State))

\* app: accidentDetector.stop()
Stop ==
    /\ isActive
    /\ Commit(stop(State))

\* getUserMedia settles for a pending audioMonitor.startMonitoring
AudioPermission(ok) ==
    /\ audioPending > 0
    /\ Commit(audioStarted(State, ok))

\* a devicemotion event
Motion(gForce) ==
    /\ Len(motionListeners) > 0
    /\ LET S1 == dispatchMotion(State, motionListeners, 1, gForce)
       IN  Commit([S1 EXCEPT !.events = events + 1,
                             !.burst = burstAfter(State, S1, gForce),
                             !.sample = sampleAfter(State, S1, gForce),
                             !.run = runAfter(State, S1)])

\* a deviceorientation event
Orientation(rot) ==
    /\ isMonitoring
    /\ LET S1 == handleOrientation(State, rot)
       IN  Commit([S1 EXCEPT !.events = events + 1,
                             !.orientation = orientationAfter(State, S1),
                             !.run = runAfter(State, S1)])

\* an animation frame of a running analyzeAudio loop
AudioFrame(level) ==
    /\ audioLoops > 0
    /\ LET S1 == analyzeAudio(State, level)
       IN  Commit([S1 EXCEPT !.events = events + 1,
                             !.audio = audioAfter(State, S1, level)])

\* the i-th countdown interval fires
Tick(i) ==
    /\ i \in 1..Len(intervals)
    /\ intervals[i].due <= now
    /\ Commit(countdownTick(State, i))

\* the i-th beep interval fires
BeepTick(i) ==
    /\ i \in 1..Len(beeps)
    /\ beeps[i] <= now
    /\ Commit(beepTick(State, i))

\* the oldest deferred reset fires
ResetTimer ==
    /\ Len(resetTimers) > 0
    /\ resetTimers[1].due <= now
    /\ Commit(resetDetection(State))

\* the "I'M OKAY - CANCEL" button: the global cancelAlert()
ManualCancel == Commit([cancelAlert(State, "manual") EXCEPT !.events = events + 1])

\* alertHandler.showAlert(severity, {}) called on the global instance, as
\* the README's testing section does from the console
ShowAlertCall(severity) ==
    Commit([callShowAlert(State, State, severity, NoDetails)
            EXCEPT !.events = events + 1])

\* the global callEmergencyNow()
CallEmergencyNow ==
    Commit([sendEmergencyAlert(State,
                [by |-> "user", session |-> session, ticks |-> 0,
                 total |-> countdownSeconds, cued |-> {}])
            EXCEPT !.events = events + 1])

\* a result of the running speech recogniser
VoiceResult(said) ==
    /\ recognisers > 0
    /\ LET S1 == onresult(State, said)
       IN  Commit([S1 EXCEPT !.events = events + 1,
                             !.voice = voiceAfter(State, S1, said)])

\* the position awaited by updateLocation settles
LocationSettled(ok) ==
    /\ gpsPending > 0
    /\ Commit(locationSettled(State, ok))

\* the i-th sendAlert runs from its first await to its end
DispatchCompleted(i, ok) ==
    /\ i \in 1..Len(dispatches)
    /\ dispatches[i].stage = "gps"
    /\ Commit(sendAlertNotified(sendAlertLocated(State, i, ok), i))

\* the position awaited by the i-th sendAlert settles
DispatchLocated(i, ok) ==
    /\ i \in 1..Len(dispatches)
    /\ dispatches[i].stage = "gps"
    /\ Commit(sendAlertLocated(State, i, ok))

\* the i-th sendAlert finishes
DispatchNotified(i) ==
    /\ i \in 1..Len(dispatches)
    /\ dispatches[i].stage = "notify"
    /\ Commit(sendAlertNotified(State, i))

\* the i-th sendAlert ends in a rejection
DispatchRejected(i) ==
    /\ i \in 1..Len(dispatches)
    /\ dispatches[i].stage = "notify"
    /\ Commit(sendAlertRejected(State, i))

\* Nothing in the state refers to the clock: no timer is pending and no
\* timestamp is kept.  The program's behaviour from such a state does not
\* depend on when it resumes, so the clock is followed only from the first
\* event that leaves a timestamp or a timer.
Timeless ==
    /\ intervals = << >> /\ beeps = << >> /\ resetTimers = << >>
    /\ lastImpactTime = 0 /\ ~sustainedHighForce /\ detectionHistory = << >>
    /\ requests = << >> /\ cancels = << >> /\ dispatches = << >>

\* time passes, but not past a timer that is due
Advance(d) ==
    /\ ~Timeless
    /\ \A i \in 1..Len(intervals) : intervals[i].due >= now + d
    /\ \A i \in 1..Len(beeps) : beeps[i] >= now + d
    /\ \A i \in 1..Len(resetTimers) : resetTimers[i].due >= now + d
    /\ Commit([State EXCEPT !.now = now + d])

---------------------------------------------------------------------------
(* Spec: the alert lifecycle.  The detector is started, motion events    *)
(* are critical impacts or shakes, the user may cancel, speak or call for  *)
(* help at any time, and a dispatch is followed from its call to its end.  *)

Next ==
    \/ ~isActive /\ Start
    \/ events < MaxEvents /\ \E g \in {90, 160} : Motion(g)
    \/ \E i \in 1..Len(intervals) : Tick(i)
    \/ \E i \in 1..Len(beeps) : BeepTick(i)
    \/ ResetTimer
    \/ events < MaxEvents /\ ManualCancel
    \/ events < MaxEvents /\ CallEmergencyNow
    \/ events < MaxEvents /\ \E t \in Transcripts : VoiceResult(t)
    \/ \E i \in 1..Len(dispatches) : DispatchCompleted(i, TRUE)
    \/ now < StartTime + Horizon /\ \E d \in Steps : Advance(d)

Spec == Init /\ [][Next]_vars

---------------------------------------------------------------------------
(* SpecEngine: the detection engine under every kind of sample, with       *)
(* cancellations and their deferred resets.                                *)

NextEngine ==
    \/ ~isActive /\ Start
    \/ \E ok \in BOOLEAN : AudioPermission(ok)
    \/ events < MaxEngineEvents /\ \E g \in Forces : Motion(g)
    \/ events < MaxEngineEvents /\ \E r \in Rotations : Orientation(r)
    \/ events < MaxEngineEvents /\ \E l \in Levels : AudioFrame(l)
    \/ \E i \in 1..Len(intervals) : Tick(i)
    \/ \E i \in 1..Len(beeps) : BeepTick(i)
    \/ ResetTimer
    \/ events < MaxEngineEvents /\ ManualCancel
    \/ now < StartTime + EngineHorizon /\ \E d \in Steps : Advance(d)

SpecEngine == Init /\ [][NextEngine]_vars

---------------------------------------------------------------------------
(* SpecCountdown: one countdown of every length, to its expiry or to its   *)
(* cancellation, with the position updateLocation and sendAlert wait for.  *)

NextCountdown ==
    \/ ~isActive /\ Start
    \/ events < MaxCountdownEvents /\ \E g \in {52, 70, 90} : Motion(g)
    \/ \E i \in 1..Len(intervals) : Tick(i)
    \/ \E i \in 1..Len(beeps) : BeepTick(i)
    \/ ResetTimer
    \/ events < MaxCountdownEvents /\ ManualCancel
    \/ \E ok \in BOOLEAN : LocationSettled(ok)
    \/ \E i \in 1..Len(dispatches), ok \in BOOLEAN : DispatchLocated(i, ok)
    \/ \E i \in 1..Len(dispatches) : DispatchNotified(i)
    \/ now < StartTime + CountdownHorizon /\ \E d \in Steps : Advance(d)

SpecCountdown == Init /\ [][NextCountdown]_vars

---------------------------------------------------------------------------
(* SpecLookup: sessions started by samples of every severity and by direct *)
(* calls of showAlert, with cancellations and the cooldown between them.   *)

LookupHorizon == 11000
MaxLookupEvents == 3

NextLookup ==
    \/ ~isActive /\ Start
    \/ events < MaxLookupEvents /\ \E g \in {52, 70, 90} : Motion(g)
    \/ events < MaxLookupEvents
           /\ \E v \in {"low", "medium", "high", "critical"} : ShowAlertCall(v)
    \/ \E i \in 1..Len(intervals) : Tick(i)
    \/ \E i \in 1..Len(beeps) : BeepTick(i)
    \/ ResetTimer
    \/ events < MaxLookupEvents /\ ManualCancel
    \/ now < StartTime + LookupHorizon /\ \E d \in Steps : Advance(d)

SpecLookup == Init /\ [][NextLookup]_vars

---------------------------------------------------------------------------
(* SpecRearm: medium impacts and cancellations a few seconds apart, with   *)
(* the deferred resets of lastImpactTime the cancellations schedule.       *)

RearmHorizon == 8000
MaxRearmEvents == 4

NextRearm ==
    \/ ~isActive /\ Start
    \/ events < MaxRearmEvents /\ Motion(52)
    \/ \E i \in 1..Len(intervals) : Tick(i)
    \/ \E i \in 1..Len(beeps) : BeepTick(i)
    \/ ResetTimer
    \/ events < MaxRearmEvents /\ ManualCancel
    \/ now < StartTime + RearmHorizon /\ \E d \in Steps : Advance(d)

SpecRearm == Init /\ [][NextRearm]_vars

---------------------------------------------------------------------------
(* SpecDispatch: critical impacts whose countdowns run out, the user's     *)
(* call for help, and every way a dispatch can go: the position found or   *)
(* not, the notifications made or sendAlert's promise rejected.            *)

DispatchHorizon == 17000
MaxDispatchEvents == 2

NextDispatch ==
    \/ ~isActive /\ Start
    \/ events < MaxDispatchEvents /\ Motion(90)
    \/ events < MaxDispatchEvents /\ CallEmergencyNow
    \/ \E i \in 1..Len(intervals) : Tick(i)
    \/ \E i \in 1..Len(beeps) : BeepTick(i)
    \/ \E i \in 1..Len(dispatches), ok \in BOOLEAN : DispatchLocated(i, ok)
    \/ \E i \in 1..Len(dispatches) : DispatchNotified(i)
    \/ \E i \in 1..Len(dispatches) : DispatchRejected(i)
    \/ now < StartTime + DispatchHorizon /\ \E d \in Steps : Advance(d)

SpecDispatch == Init /\ [][NextDispatch]_vars

---------------------------------------------------------------------------
(* SpecHistory: a long run of low impacts, one motion sample every         *)
(* SamplePeriod ms, each of which adds an event to the history.            *)

SamplePeriod == 100
MaxHistoryEvents == 60

\* the next motion sample of the run is due
SampleDue == now - StartTime = events * SamplePeriod

NextHistory ==
    \/ ~isActive /\ Start
    \/ events < MaxHistoryEvents /\ SampleDue /\ Motion(30)
    \/ events < MaxHistoryEvents /\ ~SampleDue /\ Advance(SamplePeriod)

SpecHistory == Init /\ [][NextHistory]_vars

---------------------------------------------------------------------------
(* SpecLive: sessions of the longest and the shortest countdown that the   *)
(* engine starts, left alone or cancelled, under a browser that runs every *)
(* timer that is due and a clock that goes on.  Samples arrive during the  *)
(* first LiveWindow ms; the clock is followed for LiveHorizon ms, longer   *)
(* than any countdown started in that window lasts.                        *)

LiveWindow == 1000
LiveHorizon == 33000
MaxLiveEvents == 2

NextLive ==
    \/ ~isActive /\ Start
    \/ events < MaxLiveEvents /\ now <= StartTime + LiveWindow
           /\ \E g \in {52, 90} : Motion(g)
    \/ \E i \in 1..Len(intervals) : Tick(i)
    \/ \E i \in 1..Len(beeps) : BeepTick(i)
    \/ ResetTimer
    \/ events < MaxLiveEvents /\ ManualCancel
    \/ now < StartTime + LiveHorizon /\ \E d \in Steps : Advance(d)

\* setInterval and setTimeout callbacks that are due are run, and time passes
FairTimers ==
    /\ WF_vars(\E i \in 1..Len(intervals) : Tick(i))
    /\ WF_vars(\E i \in 1..Len(beeps) : BeepTick(i))
    /\ WF_vars(ResetTimer)
    /\ WF_vars(now < StartTime + LiveHorizon /\ \E d \in Steps : Advance(d))

SpecLive == Init /\ [][NextLive]_vars /\ FairTimers

---------------------------------------------------------------------------
(* SpecSeverity: calculateSeverity on its own, applied once to a force and *)
(* a duration drawn from the ranges around its thresholds.                 *)

MaxProbeForce == 100
ProbeDurations == {0, 100, 199, 200, 201, 1000}

InitSeverity ==
    /\ InitProgram
    /\ probe \in [force : 0..MaxProbeForce, duration : ProbeDurations,
                  out : {Undefined}]

\* const severity = this.calculateSeverity(impactForce, forceDuration)
ApplyCalculateSeverity ==
    /\ probe.out = Undefined
    /\ Commit([State EXCEPT !.probe.out =
                   calculateSeverity(probe.force, probe.duration)])

NextSeverity == ApplyCalculateSeverity

SpecSeverity == InitSeverity /\ [][NextSeverity]_vars

---------------------------------------------------------------------------
(* SpecCombined: calculateCombinedSeverity on its own, applied once to an  *)
(* Impact event of each severity and a sound level.                        *)

MaxProbeLevel == 120

InitCombined ==
    /\ InitProgram
    /\ probe \in [severity : {"low", "medium", "high", "critical"},
                  level : 0..MaxProbeLevel, out : {Undefined}]

\* const severity = this.calculateCombinedSeverity(recentImpact, level)
ApplyCalculateCombinedSeverity ==
    /\ probe.out = Undefined
    /\ Commit([State EXCEPT !.probe.out =
                   calculateCombinedSeverity(
                       [type |-> "impact", severity |-> probe.severity],
                       probe.level)])

NextCombined == ApplyCalculateCombinedSeverity

SpecCombined == InitCombined /\ [][NextCombined]_vars

---------------------------------------------------------------------------
(* SpecSustained: the sustained-force tracker under motion and orientation *)
(* samples 100 ms apart, around sustainedForceDuration.                    *)

SustainedHorizon == 400
MaxSustainedEvents == 4
FineSteps == {100}

NextSustained ==
    \/ ~isActive /\ Start
    \/ events < MaxSustainedEvents /\ \E g \in {10, 30, 70, 90} : Motion(g)
    \/ events < MaxSustainedEvents /\ \E r \in Rotations : Orientation(r)
    \/ now < StartTime + SustainedHorizon /\ \E d \in FineSteps : Advance(d)

SpecSustained == Init /\ [][NextSustained]_vars

---------------------------------------------------------------------------
(* SpecCorrelation: audio frames 500 ms apart, after low and medium        *)
(* impacts.                                                                *)

CorrelationHorizon == 6000
MaxCorrelationEvents == 3
HalfSteps == {500}

NextCorrelation ==
    \/ ~isActive /\ Start
    \/ AudioPermission(TRUE)
    \/ events < MaxCorrelationEvents /\ \E g \in {30, 52} : Motion(g)
    \/ events < MaxCorrelationEvents /\ AudioFrame(105)
    \/ \E i \in 1..Len(intervals) : Tick(i)
    \/ \E i \in 1..Len(beeps) : BeepTick(i)
    \/ now < StartTime + CorrelationHorizon /\ \E d \in HalfSteps : Advance(d)

SpecCorrelation == Init /\ [][NextCorrelation]_vars

---------------------------------------------------------------------------
(* SpecTracker: the sustained-force tracker under calm and strong motion   *)
(* samples and orientation samples 100 ms apart, with the detector stopped *)
(* and started again in between.                                           *)

TrackerHorizon == 400
MaxTrackerEvents == 4
MaxStarts == 2

NextTracker ==
    \/ ~isActive /\ audioPending < MaxStarts /\ Start
    \/ Stop
    \/ events < MaxTrackerEvents /\ \E g \in {10, 30, 70} : Motion(g)
    \/ events < MaxTrackerEvents /\ \E r \in Rotations : Orientation(r)
    \/ now < StartTime + TrackerHorizon /\ \E d \in FineSteps : Advance(d)

SpecTracker == Init /\ [][NextTracker]_vars

---------------------------------------------------------------------------
(* SpecRecent: hasRecentImpact on its own, applied once to a history of up *)
(* to MaxProbeHistory events of every type, in the order of their          *)
(* timestamps, with ages around the 2000 ms window; the severity of the    *)
(* Combined event is then computed from its result as analyzeAudioData     *)
(* does.                                                                   *)

MaxProbeHistory == 3
ProbeAges == {0, 2000, 2001, 3000}

ProbeEvents ==
    [type : {"impact", "rotation", "combined"},
     severity : {"low", "high"},
     timestamp : {StartTime - a : a \in ProbeAges}]

\* histories as addDetectionEvent builds them: timestamps never decrease
ProbeHistories ==
    UNION {{h \in [1..n -> ProbeEvents] :
               \A i \in 1..(n - 1) : h[i].timestamp <= h[i + 1].timestamp} :
           n \in 0..MaxProbeHistory}

InitRecent ==
    /\ InitProgram
    /\ probe \in [history : ProbeHistories, done : {FALSE}, out : {Null},
                  severity : {Undefined}]

\* const recentImpact = this.hasRecentImpact(currentTime, 2000), and the
\* severity computed from it with a sound level of crashSoundLevel
ApplyHasRecentImpact ==
    /\ ~probe.done
    /\ LET recentImpact ==
               hasRecentImpact(probe.history, now, RecentImpactWindow)
       IN  Commit([State EXCEPT
               !.probe.done = TRUE,
               !.probe.out = recentImpact,
               !.probe.severity =
                   IF recentImpact # Null
                   THEN calculateCombinedSeverity(recentImpact[1],
                                                  crashSoundLevel)
                   ELSE Undefined])

NextRecent == ApplyHasRecentImpact

SpecRecent == InitRecent /\ [][NextRecent]_vars

---------------------------------------------------------------------------
(* SpecRotation: the rotation check under calm motion samples and          *)
(* orientation samples whose angles lie on both sides of suddenRotation.   *)

RotationHorizon == 300
MaxRotationEvents == 3

RotationSamples ==
    {[alpha |-> a, beta |-> b, gamma |-> c] :
        a \in {0, 90}, b \in {0, 45, 46}, c \in {0, 46}}

NextRotation ==
    \/ ~isActive /\ Start
    \/ events < MaxRotationEvents /\ Motion(10)
    \/ events < MaxRotationEvents /\ \E r \in RotationSamples : Orientation(r)
    \/ now < StartTime + RotationHorizon /\ \E d \in FineSteps : Advance(d)

SpecRotation == Init /\ [][NextRotation]_vars

---------------------------------------------------------------------------
(* SpecCue: one countdown of every length, the 60 s of severity low and    *)
(* the 30 s of an unknown severity included, started by a call of          *)
(* showAlert and followed tick by tick to its expiry or its cancellation.  *)

CueHorizon == 62000
MaxCueEvents == 2

CueSeverities == {"low", "medium", "high", "critical", "unknown"}

NextCue ==
    \/ events < MaxCueEvents /\ \E sv \in CueSeverities : ShowAlertCall(sv)
    \/ \E i \in 1..Len(intervals) : Tick(i)
    \/ \E i \in 1..Len(beeps) : BeepTick(i)
    \/ ResetTimer
    \/ events < MaxCueEvents /\ ManualCancel
    \/ now < StartTime + CueHorizon /\ \E d \in Steps : Advance(d)

SpecCue == Init /\ [][NextCue]_vars

---------------------------------------------------------------------------
(* SpecShake: sessions under motion samples of 9.0, 15.0 and 16.0 g that   *)
(* arrive 500 ms apart or together, until after the deferred reset of a    *)
(* cancellation.                                                           *)

ShakeHorizon == 5500
MaxShakeEvents == 4

NextShake ==
    \/ ~isActive /\ Start
    \/ events < MaxShakeEvents /\ \E g \in {90, 150, 160} : Motion(g)
    \/ \E i \in 1..Len(intervals) : Tick(i)
    \/ \E i \in 1..Len(beeps) : BeepTick(i)
    \/ ResetTimer
    \/ now < StartTime + ShakeHorizon /\ \E d \in HalfSteps : Advance(d)

SpecShake == Init /\ [][NextShake]_vars

---------------------------------------------------------------------------
(* SpecVoice: sessions under recognition results that hold no phrase, one  *)
(* phrase, several phrases, a phrase in capitals, a phrase inside a longer *)
(* word and the letters of a phrase with a space between them.             *)

VoiceHorizon == 6000
MaxVoiceEvents == 3

VoiceTranscripts ==
    { <<"I", "'", "m", " ", "O", "K">>,
      <<"h", "e", "l", "p">>,
      <<"S", "T", "O", "P">>,
      <<"b", "o", "o", "k">>,
      <<"o", " ", "k">>,
      <<"s", "t", "o", "p", " ", "f", "i", "n", "e">>,
      << >> }

NextVoice ==
    \/ ~isActive /\ Start
    \/ events < MaxVoiceEvents /\ Motion(90)
    \/ events < MaxVoiceEvents /\ \E t \in VoiceTranscripts : VoiceResult(t)
    \/ \E i \in 1..Len(intervals) : Tick(i)
    \/ \E i \in 1..Len(beeps) : BeepTick(i)
    \/ ResetTimer
    \/ now < StartTime + VoiceHorizon /\ \E d \in Steps : Advance(d)

SpecVoice == Init /\ [][NextVoice]_vars

---------------------------------------------------------------------------
(* SpecOrder: shake samples with the two devicemotion listeners in either  *)
(* order of registration: the sensor listener first, when the detector was *)
(* started before the session, and the shake listener first, when the      *)
(* session was started from the console before the detector.               *)

OrderHorizon == 11000
MaxOrderEvents == 3

NextOrder ==
    \/ ~isActive /\ Start
    \/ events < MaxOrderEvents /\ ShowAlertCall("medium")
    \/ events < MaxOrderEvents /\ \E g \in {90, 160} : Motion(g)
    \/ \E i \in 1..Len(intervals) : Tick(i)
    \/ \E i \in 1..Len(beeps) : BeepTick(i)
    \/ ResetTimer
    \/ now < StartTime + OrderHorizon /\ \E d \in Steps : Advance(d)

SpecOrder == Init /\ [][NextOrder]_vars

---------------------------------------------------------------------------
(* SpecRestart: the detector started, stopped and started again while the  *)
(* microphone permission requests of its starts are pending or settled,    *)
(* with motion samples and audio frames.                                   *)

RestartHorizon == 3000
MaxRestartEvents == 3

NextRestart ==
    \/ ~isActive /\ audioPending < MaxStarts /\ Start
    \/ Stop
    \/ \E ok \in BOOLEAN : AudioPermission(ok)
    \/ events < MaxRestartEvents /\ \E g \in {10, 52} : Motion(g)
    \/ events < MaxRestartEvents /\ \E l \in Levels : AudioFrame(l)
    \/ \E i \in 1..Len(intervals) : Tick(i)
    \/ \E i \in 1..Len(beeps) : BeepTick(i)
    \/ now < StartTime + RestartHorizon /\ \E d \in Steps : Advance(d)

SpecRestart == Init /\ [][NextRestart]_vars

---------------------------------------------------------------------------
(* Properties of the alert lifecycle.                                      *)

\* the request that started session n, as a set of indices in requests
StartedBy(n) ==
    {k \in 1..Len(requests) :
        /\ requests[k].sessionAfter = n
        /\ requests[k].sessionBefore # n}

\* C1: at most one session is live at a time: the browser never holds more
\* than one countdown interval, one beep interval, one shake listener or one
\* recogniser, and a showAlert call made while isAlertActive is true starts
\* no session and creates none of them.
C1_OneLiveSession ==
    /\ Len(intervals) <= 1
    /\ Len(beeps) <= 1
    /\ Cardinality({i \in 1..Len(motionListeners) :
                       motionListeners[i].kind = "shake"}) <= 1
    /\ recognisers <= 1
    /\ \A k \in 1..Len(requests) :
           requests[k].wasActive =>
               /\ requests[k].sessionAfter = requests[k].sessionBefore
               /\ requests[k].armedAfter = requests[k].armedBefore

\* a second request has reached showAlert while the first session is live
C1_Witness ==
    /\ isAlertActive
    /\ Len(intervals) = 1
    /\ \E k \in 1..Len(requests) : requests[k].wasActive

\* what cancelAlert leaves of a handler it found in view v
IdleAfter(v) ==
    [v EXCEPT !.isAlertActive = FALSE, !.countdownTimer = FALSE,
              !.voiceRecognition = FALSE, !.shakeDetection = FALSE,
              !.beepInterval = FALSE, !.intervals = 0, !.beeps = 0,
              !.shakes = 0, !.recognisers = 0, !.alertAudioContext = FALSE,
              !.screen = "dashboard", !.resetTimers = v.resetTimers + 1]

\* C4: a cancellation that finds the session active leaves the lifecycle
\* idle with the countdown, the beeping, the recogniser and the shake
\* listener all disarmed, the same for the button, the voice and the shake;
\* and the cancelled session is never dispatched by a countdown tick.
C4_CancelDisarms ==
    /\ \A k \in 1..Len(cancels) :
           cancels[k].wasActive =>
               cancels[k].after = IdleAfter(cancels[k].before)
    /\ \A n \in 1..Len(dispatches) :
           dispatches[n].via.by = "tick" =>
               ~\E k \in 1..Len(cancels) :
                     /\ cancels[k].wasActive
                     /\ cancels[k].session = dispatches[n].via.session

\* a shake has cancelled a live session, and the clock has passed the time
\* at which that session's countdown would have expired
C4_Witness ==
    \E k \in 1..Len(cancels) :
        /\ cancels[k].wasActive
        /\ cancels[k].source = "shake"
        /\ \E r \in StartedBy(cancels[k].session) :
               now > requests[r].time
                         + (getCountdownTime(requests[r].severity) + 1)
                               * TickPeriod

\* C7: once a session has escalated, no new trigger is accepted until
\* sendAlert has run to its end: a request that reaches showAlert while the
\* dispatch of an escalated session is still running starts no session.
C7_NoSessionWhileDispatching ==
    \A k \in 1..Len(requests) :
        requests[k].dispatching =>
            requests[k].sessionAfter = requests[k].sessionBefore

\* C8: of a countdown expiry and a cancellation of the same session, the one
\* that comes second changes no state: a cancellation after the expiry
\* leaves the handler and the pending timers as it found them, and an
\* expiry never follows a cancellation.
C8_SecondArrivalChangesNothing ==
    /\ \A k \in 1..Len(cancels) :
           ( /\ ~cancels[k].wasActive
             /\ \E n \in 1..Len(dispatches) :
                    /\ dispatches[n].via.by = "tick"
                    /\ dispatches[n].via.session = cancels[k].session
                    /\ dispatches[n].time <= cancels[k].time )
           => cancels[k].after = cancels[k].before
    /\ \A n \in 1..Len(dispatches) :
           dispatches[n].via.by = "tick" =>
               \A k \in 1..Len(cancels) :
                   cancels[k].session = dispatches[n].via.session =>
                       ~cancels[k].wasActive

---------------------------------------------------------------------------
(* Properties of the detection engine.                                     *)

C3_BurstOneRequest ==
    burst.on => burst.count = 1 /\ burst.severity = "critical"

\* C3: in such a burst at least one request reaches showAlert, every request
\* is critical, and there is exactly one unless a cancellation's deferred
\* reset of lastImpactTime runs during the burst; each such reset lets at
\* most one more request through.
C3_BurstOneRequestPerReset ==
    burst.on =>
        /\ burst.count >= 1
        /\ burst.count <= 1 + burst.resets
        /\ burst.severity = "critical"
        /\ burst.critical

\* a burst of three critical samples over three seconds that has produced
\* one request
C3_Witness ==
    /\ burst.on
    /\ burst.samples >= 3
    /\ now - burst.start >= 3 * TickPeriod
    /\ burst.resets = 0
    /\ burst.count = 1

\* C5: a cancellation that finds the lifecycle idle changes neither the
\* lifecycle state nor lastImpactTime, then or at any later time: the
\* lifecycle stays idle, and the deferred reset it leaves, if any, finds
\* lastImpactTime already 0.
C5_IdleCancelChangesNothing ==
    /\ \A k \in 1..Len(cancels) :
           ~cancels[k].wasActive =>
               cancels[k].after.isAlertActive = cancels[k].before.isAlertActive
    /\ \A k \in 1..Len(resetLog) :
           ~resetLog[k].wasActive => resetLog[k].before = 0

\* C9: only requests of severity medium, high or critical reach showAlert
\* and start a session; a request of severity low or none is dropped.
C9_OnlyMediumAndAbove ==
    /\ \A k \in 1..Len(requests) :
           requests[k].severity \in {"medium", "high", "critical"}
    /\ \A n \in 1..session : StartedBy(n) # {}
    /\ isAlertActive => currentSeverity \in {"medium", "high", "critical"}

\* a low impact passed the cooldown gate and was dropped, and a later sample
\* has started a session
C9_Witness ==
    /\ session >= 1
    /\ \E i \in 1..Len(detectionHistory) :
           /\ detectionHistory[i].type = "impact"
           /\ detectionHistory[i].severity = "low"
           /\ \A k \in 1..Len(requests) :
                  requests[k].time > detectionHistory[i].timestamp

---------------------------------------------------------------------------
(* Properties of the countdown.                                            *)

\* the details a request was made with, whatever location was added since
SameDetails(a, b) ==
    [a EXCEPT !.location = Undefined] = [b EXCEPT !.location = Undefined]

\* C6: a session started with countdown N (15 for critical, 20 for high, 30
\* for medium) that is not cancelled is dispatched on tick N + 1 and on no
\* earlier tick, with the severity and the details it was triggered with.
C6_DispatchOnTickAfterZero ==
    /\ \A i \in 1..Len(intervals) :
           /\ intervals[i].ticks <= intervals[i].total
           /\ intervals[i].timeLeft = intervals[i].total - intervals[i].ticks
           /\ \A n \in 1..Len(dispatches) :
                  dispatches[n].via.session # intervals[i].session
    /\ \A n \in 1..Len(dispatches) :
           dispatches[n].via.by = "tick" =>
               /\ dispatches[n].via.ticks = dispatches[n].via.total + 1
               /\ dispatches[n].time =
                      dispatches[n].via.ticks * TickPeriod
                          + requests[CHOOSE r \in
                                StartedBy(dispatches[n].via.session) : TRUE].time
               /\ \E r \in StartedBy(dispatches[n].via.session) :
                      /\ dispatches[n].severity = requests[r].severity
                      /\ SameDetails(dispatches[n].details,
                                     requests[r].details)
                      /\ dispatches[n].via.total =
                             ( CASE requests[r].severity = "critical" -> 15
                                 [] requests[r].severity = "high" -> 20
                                 [] requests[r].severity = "medium" -> 30 )

\* a medium session has run its 30 seconds and was dispatched on tick 31,
\* with the position added to its details meanwhile
C6_Witness ==
    \E n \in 1..Len(dispatches) :
        /\ dispatches[n].via.by = "tick"
        /\ dispatches[n].severity = "medium"
        /\ dispatches[n].via.ticks = 31
        /\ dispatches[n].details.location = "position"

---------------------------------------------------------------------------
(* Properties of calculateSeverity.                                        *)

\* the rules of the severity classification, in order, in tenths of a g
\* and milliseconds
RuleHolds(k, force, duration) ==
    CASE k = 1 -> force >= 80
      [] k = 2 -> force >= 60 /\ duration >= 200
      [] k = 3 -> force >= 60
      [] k = 4 -> force >= 40
      [] k = 5 -> force >= 25
      [] OTHER -> TRUE

RuleResult == << "critical", "critical", "high", "medium", "low", "none" >>

FirstMatch(force, duration) ==
    RuleResult[CHOOSE k \in 1..6 :
                  /\ RuleHolds(k, force, duration)
                  /\ \A j \in 1..(k - 1) : ~RuleHolds(j, force, duration)]

\* C10: calculateSeverity(force, duration) is the result of the first rule
\* that matches: critical from 8.0 g, critical from 6.0 g held for 200 ms,
\* high from 6.0 g, medium from 4.0 g, low from 2.5 g, none otherwise.
C10_SeverityIsFirstMatch ==
    probe.out # Undefined =>
        probe.out = FirstMatch(probe.force, probe.duration)

\* calculateSeverity has classified a force under 8.0 g as critical
C10_Witness ==
    /\ probe.out = "critical"
    /\ probe.force < criticalImpact

---------------------------------------------------------------------------
(* Properties of the sustained-force tracker.                              *)

---------------------------------------------------------------------------
(* Properties of the audio path.                                           *)

\* C12: an audio frame at or above crashSoundLevel for which the history
\* holds no Impact event from the preceding 2000 ms makes no alert request
\* and appends no Combined event.
C12_AudioAloneNeverAlerts ==
    (audio.level >= crashSoundLevel /\ audio.impacts = << >>) =>
        /\ audio.requested = 0
        /\ audio.combined = << >>

\* a loud frame has passed the 5000 ms gate of the audio path and found
\* only an Impact event older than 2000 ms
C12_Witness ==
    /\ audio.level >= crashSoundLevel
    /\ audio.impacts = << >>
    /\ audio.sinceRequest > AudioCooldown
    /\ audio.older

---------------------------------------------------------------------------
(* Properties of the rotation path.                                        *)

\* C13: processing an orientation sample makes no alert request and appends
\* no Impact event, whatever motion samples came before it; all it may
\* append is a Rotation event.
C13_OrientationOnlyRecords ==
    orientation.seen =>
        /\ orientation.requested = 0
        /\ \A i \in 1..Len(orientation.appended) :
               orientation.appended[i].type = "rotation"

\* C14: an audio frame of level 105 that arrives 500 ms after the engine
\* recorded an Impact event of severity medium is correlated with it: the
\* frame appends one Combined event, of severity high.
C14_AudioCorrelatesWithImpact ==
    ( /\ audio.level = 105
      /\ audio.impacts # << >>
      /\ audio.age = 500
      /\ audio.impacts[Len(audio.impacts)].severity = "medium" )
    => /\ Len(audio.combined) = 1
       /\ audio.combined[1].type = "combined"
       /\ audio.combined[1].severity = "high"

\* the severities in order, and the one a step above
SeverityScale == << "low", "medium", "high", "critical" >>

RankOf(severity) == CHOOSE k \in 1..4 : SeverityScale[k] = severity

\* C15: at a sound level at or above crashSoundLevel
\* calculateCombinedSeverity returns the impact event's severity raised by
\* exactly one step for low and medium (low gives medium, not high; medium
\* gives high) and unchanged for high and critical.
C15_CombinedOneStepUp ==
    (probe.out # Undefined /\ probe.level >= 100) =>
        probe.out = IF RankOf(probe.severity) <= 2
                    THEN SeverityScale[RankOf(probe.severity) + 1]
                    ELSE probe.severity

\* a low impact with a sound level of 100 has been combined to medium
C15_Witness ==
    /\ probe.out = "medium"
    /\ probe.severity = "low"
    /\ probe.level = 100

\* C16: a motion sample that finds no session active and the cooldown over
\* and is classified medium, high or critical starts a session whose
\* countdown is 30, 20 or 15 seconds; a call of showAlert that finds no
\* session active starts one whose countdown is 60 seconds for low and the
\* same 30, 20 and 15 for the others.
C16_CountdownIsLookup ==
    LET lookup == [v \in {"low", "medium", "high", "critical"} |->
                      CASE v = "low" -> 60 [] v = "medium" -> 30
                        [] v = "high" -> 20 [] v = "critical" -> 15]
    IN  /\ (sample.armed /\ sample.severity \in {"medium", "high", "critical"})
               => sample.total = lookup[sample.severity]
        /\ \A i \in 1..Len(requests) :
               ~requests[i].wasActive =>
                   /\ requests[i].sessionAfter = requests[i].sessionBefore + 1
                   /\ requests[i].total = lookup[requests[i].severity]

\* a 5.2 g sample with no sustained duration has started a 30 s countdown,
\* and a call of showAlert with low a 60 s one
C16_Witness ==
    /\ sample.force = 52 /\ sample.sustained = 0 /\ sample.armed
    /\ sample.severity = "medium" /\ sample.total = 30
    /\ \E i \in 1..Len(requests) :
           /\ requests[i].severity = "low" /\ requests[i].total = 60
           /\ requests[i].time > sample.since

\* C17: cancelAlert leaves lastImpactTime as it found it; the reset it
\* schedules is still pending until 5000 ms after the cancellation, fires
\* exactly then and sets lastImpactTime to 0; and a request that reaches
\* showAlert after a cancellation and less than 5000 ms from it, while the
\* cooldown of the lastImpactTime that cancellation found is still running,
\* owes it to the reset of an earlier cancellation.
C17_ResetDeferredFiveSeconds ==
    /\ \A c \in 1..Len(cancels) :
           cancels[c].lastImpactTimeAfter = cancels[c].lastImpactTime
    /\ \A k \in 1..Len(resetTimers) :
           /\ resetTimers[k].due = resetTimers[k].cancelled + 5000
           /\ now <= resetTimers[k].due
    /\ \A k \in 1..Len(resetLog) :
           /\ resetLog[k].time = resetLog[k].cancelled + 5000
           /\ resetLog[k].after = 0
    /\ Len(resetLog) + Len(resetTimers) = Len(cancels)
    /\ \A c \in 1..Len(cancels) : \A r \in 1..Len(requests) :
           (/\ requests[r].cancels >= c
            /\ requests[r].time < cancels[c].time + 5000
            /\ requests[r].time - cancels[c].lastImpactTime < AlertCooldown)
           => \E k \in 1..Len(resetLog) :
                  /\ resetLog[k].cancelled < cancels[c].time
                  /\ cancels[c].time <= resetLog[k].time
                  /\ resetLog[k].time <= requests[r].time

\* a session was cancelled, a medium sample less than 5000 ms later found
\* the cooldown still running and started nothing, and the reset has fired
C17_Witness ==
    /\ Len(cancels) = 1 /\ cancels[1].wasActive
    /\ cancels[1].lastImpactTime > 0
    /\ Len(requests) = 1 /\ requests[1].time <= cancels[1].time
    /\ sample.force = 52
    /\ sample.since + sample.sustained > cancels[1].time
    /\ sample.since + sample.sustained < cancels[1].time + 5000
    /\ ~sample.armed /\ sample.total = 0
    /\ Len(resetLog) = 1 /\ resetLog[1].before > 0 /\ lastImpactTime = 0

\* what a failed dispatch leaves behind: no session active until a request
\* starts the next one, and no further call of sendAlert for its session
\* other than by the user's own call for help
FailureLeavesIdle(i) ==
    /\ session = dispatches[i].session => ~isAlertActive
    /\ \A j \in 1..Len(dispatches) :
           (dispatches[j].session = dispatches[i].session /\ j # i)
               => dispatches[j].via.by = "user"

\* C18: when the sendAlert of a session's dispatch has failed, the failure
\* has been reported to the user, the alert handler is idle again so that a
\* later request starts a session, and sendAlert is not called again for
\* that session by the program.
C18_DispatchFailureReported ==
    \A i \in 1..Len(dispatches) :
        (dispatches[i].wasActive /\ dispatches[i].stage = "failed") =>
            dispatches[i].reported /\ FailureLeavesIdle(i)

\* C19: a dispatch whose getCurrentPosition failed goes on with the
\* placeholder location marked unavailable: it is past the await, with the
\* SMS, WhatsApp and call steps next, and when it is done all three have
\* been made.
C19_LocationFailureStillNotifies ==
    \A i \in 1..Len(dispatches) :
        dispatches[i].locationAvailable = "no" =>
            /\ dispatches[i].location # Null
            /\ dispatches[i].location[1] =
                   [latitude |-> 0, longitude |-> 0, accuracy |-> 0,
                    unavailable |-> TRUE]
            /\ dispatches[i].stage # "gps"
            /\ dispatches[i].stage = "done" =>
                   dispatches[i].notified = << "sms", "whatsapp", "call" >>

\* the dispatch of a session whose countdown ran out found no position and
\* has made its three notifications
C19_Witness ==
    \E i \in 1..Len(dispatches) :
        /\ dispatches[i].wasActive /\ dispatches[i].via.by = "tick"
        /\ dispatches[i].locationAvailable = "no"
        /\ dispatches[i].stage = "done"
        /\ dispatches[i].notified = << "sms", "whatsapp", "call" >>

\* C20: the history never holds more than 50 events; the events added since
\* it was emptied are, in order, those shifted out of it followed by those
\* it holds, so it holds the most recent ones in insertion order and each
\* addition to a full history has removed the one oldest event.
C20_HistoryIsLastFifty ==
    /\ Len(detectionHistory) <= 50
    /\ historyLog.added = historyLog.evicted \o detectionHistory
    /\ Len(historyLog.added) >= 50 => Len(detectionHistory) = 50
    /\ Len(historyLog.added) <= 50 => historyLog.evicted = << >>

\* 53 events have been added: the first three are gone and the history
\* begins with the fourth
C20_Witness ==
    /\ Len(historyLog.added) = 53
    /\ Len(detectionHistory) = 50
    /\ Len(historyLog.evicted) = 3
    /\ detectionHistory[1] = historyLog.added[4]
    /\ detectionHistory[1].timestamp < detectionHistory[50].timestamp

\* C21: with the countdown interval firing every second, a session that is
\* active is eventually over: isAlertActive is false again, by a
\* cancellation or by the countdown running out.
C21_ActiveSessionEnds == isAlertActive ~> ~isAlertActive

\* a 30 s session nobody cancelled has ended in its dispatch
C21_Witness ==
    /\ ~isAlertActive /\ session = 1 /\ cancels = << >>
    /\ Len(dispatches) = 1 /\ dispatches[1].via.by = "tick"
    /\ dispatches[1].via.total = 30 /\ dispatches[1].wasActive

\* C22: a motion sample changes lastImpactTime exactly when its request
\* reaches showAlert, so a sample classified low or none leaves it alone;
\* and a sample classified medium or above makes its request whenever the
\* last request that reached showAlert is at least 10000 ms old.
C22_StampOnlyOnRequest ==
    /\ sample.stamped <=> sample.requested = 1
    /\ (sample.severity \in {"medium", "high", "critical"} /\ sample.quiet)
           => sample.requested = 1

\* C23: a call of showAlert that finds a session active leaves its severity,
\* its details, its countdown and what is left of it as they are, whatever
\* the severity of the call, and arms nothing; and a session starts only in
\* a call that found none active, so a dropped call starts none later.
C23_ActiveSessionUntouched ==
    /\ \A r \in 1..Len(requests) :
           requests[r].wasActive =>
               /\ requests[r].kept
               /\ requests[r].sessionAfter = requests[r].sessionBefore
               /\ requests[r].armedAfter = requests[r].armedBefore
    /\ session = Cardinality({r \in 1..Len(requests) : ~requests[r].wasActive})

\* a medium session was running when a critical call came; it was cancelled
\* afterwards and no other session has started
C23_Witness ==
    /\ Len(requests) = 2 /\ Len(cancels) = 1
    /\ ~requests[1].wasActive /\ requests[1].severity = "medium"
    /\ requests[2].wasActive /\ requests[2].severity = "critical"
    /\ requests[2].cancels = 0 /\ cancels[1].wasActive
    /\ now >= cancels[1].time + 2 * TickPeriod
    /\ session = 1 /\ ~isAlertActive

\* C24: the tracker runs exactly while the analysed samples form an
\* unbroken run with a force at or above lowImpact, and highForceStartTime
\* is the time of the first sample of that run; each Impact event a sample
\* of the run appends has its time less that start as its duration; and a
\* sample below lowImpact stops the tracker, appends no Impact event and
\* makes no alert request.
C24_TrackerFollowsRun ==
    /\ sustainedHighForce <=> run.on
    /\ run.on =>
           /\ highForceStartTime = run.since
           /\ run.impacts # << >>
           /\ \A k \in 1..Len(run.impacts) :
                  run.impacts[k].duration =
                      run.impacts[k].timestamp - run.since
    /\ ~run.on => run.impacts = << >> /\ run.requested = 0

\* the third sample of a run that began 200 ms ago, after a calm sample
\* had ended an earlier run
C24_Witness ==
    /\ run.on /\ run.since = StartTime + 200 /\ now = StartTime + 400
    /\ sustainedHighForce /\ highForceStartTime = run.since
    /\ Len(run.impacts) = 1 /\ run.impacts[1].duration = 200
    /\ run.impacts[1].severity = "critical"

\* C25 as stated: a frame at or above crashSoundLevel that has an Impact
\* event of the last 2000 ms to go with appends its Combined event exactly
\* when lastImpactTime is at least 5000 ms old, 5000 ms included.
C25_ConsideredFromFiveSeconds ==
    (audio.level >= crashSoundLevel /\ audio.impacts # << >>) =>
        (audio.combined # << >> <=> audio.sinceRequest >= 5000)

\* C25: such a frame appends its Combined event exactly when lastImpactTime
\* is more than 5000 ms old; at exactly 5000 ms it is discarded.
C25_ConsideredAfterFiveSeconds ==
    (audio.level >= crashSoundLevel /\ audio.impacts # << >>) =>
        (audio.combined # << >> <=> audio.sinceRequest > 5000)

\* a frame exactly 5000 ms after lastImpactTime, with an Impact event
\* 1000 ms old in the history, has appended nothing
C25_Witness ==
    /\ audio.level >= crashSoundLevel /\ audio.sinceRequest = 5000
    /\ audio.impacts # << >> /\ audio.age = 1000
    /\ audio.combined = << >>

InWindow ==
    {k \in 1..Len(probe.history) :
        /\ probe.history[k].type = "impact"
        /\ now - probe.history[k].timestamp <= 2000}

\* low and medium raised by one step, high and critical as they are
RaisedByAudio(severity) ==
    IF RankOf(severity) <= 2 THEN SeverityScale[RankOf(severity) + 1]
    ELSE severity

\* C27: hasRecentImpact(now, 2000) returns the last appended of the Impact
\* events at most 2000 ms old, whatever rotation or combined events follow
\* it, and null when there is none; the severity of the Combined event is
\* derived from that event's, also when an earlier Impact event in the
\* window is more severe.
C27_LatestImpactInWindow ==
    probe.done =>
        IF InWindow = {}
        THEN probe.out = Null
        ELSE LET last == CHOOSE k \in InWindow : \A j \in InWindow : j <= k
             IN  /\ probe.out = <<probe.history[last]>>
                 /\ probe.severity =
                        RaisedByAudio(probe.history[last].severity)

\* a high impact exactly 2000 ms old, a low one after it and a rotation
\* after that: the low impact is returned and the result is medium
C27_Witness ==
    /\ probe.done /\ Len(probe.history) = 3
    /\ probe.history[1].type = "impact" /\ probe.history[1].severity = "high"
    /\ now - probe.history[1].timestamp = 2000
    /\ probe.history[2].type = "impact" /\ probe.history[2].severity = "low"
    /\ probe.history[3].type = "rotation"
    /\ probe.out = <<probe.history[2]>> /\ probe.severity = "medium"

---------------------------------------------------------------------------
(* Properties of the rotation check.                                       *)

\* the Rotation events the latest orientation sample appended
RotationEventsAppended ==
    {i \in 1..Len(orientation.appended) :
        orientation.appended[i].type = "rotation"}

\* C28: an analysed orientation sample appends a Rotation event, of severity
\* high, exactly when it differs from the orientation sample before it by
\* more than 45 degrees in beta or in gamma; the first orientation sample
\* received appends none.
C28_RotationEventOnLargeTurn ==
    (orientation.seen /\ orientation.analysed) =>
        /\ RotationEventsAppended # {} <=> orientation.exceeds
        /\ \A i \in RotationEventsAppended :
               orientation.appended[i].severity = "high"
        /\ orientation.first => RotationEventsAppended = {}

---------------------------------------------------------------------------
(* Properties of the urgency cue.                                          *)

\* the values of timeLeft the callback of an interval has run with
TickedValues(t) == {v \in 0..t.total : v > t.timeLeft}

\* C29: every countdown interval has emitted the urgency cue on exactly the
\* ticks it ran with a remaining value from 1 to 10, never at 0 or above 10;
\* a countdown that ran to its expiry emitted it exactly 10 times, whatever
\* its length.
C29_UrgencyCueOnLastTen ==
    /\ \A i \in 1..Len(intervals) :
           intervals[i].cued =
               {v \in TickedValues(intervals[i]) : 1 <= v /\ v <= 10}
    /\ \A n \in 1..Len(dispatches) :
           dispatches[n].via.by = "tick" =>
               /\ dispatches[n].via.cued = 1..10
               /\ Cardinality(dispatches[n].via.cued) = 10

C29_Witness ==
    /\ Len(dispatches) = 1
    /\ dispatches[1].via.by = "tick"
    /\ dispatches[1].via.total = CountdownLow
    /\ dispatches[1].via.ticks = CountdownLow + 1
    /\ Cardinality(dispatches[1].via.cued) = 10
    /\ cancels = << >>

---------------------------------------------------------------------------
(* Properties of cancellation as the detection engine sees it.             *)

\* C30: a call of cancelAlert changes nothing in the detection engine, and
\* the callback of its deferred timer changes lastImpactTime (to 0) and
\* nothing else: the history, the sustained-force tracker and the previous
\* rotation stay as they were.
C30_CancelKeepsClassification ==
    /\ \A c \in 1..Len(cancels) :
           /\ cancels[c].engineKept
           /\ cancels[c].lastImpactTimeAfter = cancels[c].lastImpactTime
    /\ \A r \in 1..Len(resetLog) :
           /\ resetLog[r].engineKept
           /\ resetLog[r].after = 0

C30_Witness ==
    /\ Len(cancels) = 1 /\ cancels[1].wasActive
    /\ Len(resetLog) = 1 /\ resetLog[1].before > 0
    /\ lastImpactTime = 0
    /\ sustainedHighForce
    /\ previousRotation # Null
    /\ detectionHistory # << >>

---------------------------------------------------------------------------
(* Properties of what is armed, and when.                                  *)

\* the shake listeners registered with the browser
ShakeListeners ==
    {i \in 1..Len(motionListeners) : motionListeners[i].kind = "shake"}

\* C31: in every state, a registered shake listener, a running speech
\* recogniser, a running beep interval or a running countdown interval
\* implies that a session is active.
C31_ArmedOnlyWhileActive ==
    ( \/ ShakeListeners # {}
      \/ recognisers > 0
      \/ beeps # << >>
      \/ intervals # << >> )
    => isAlertActive

\* a second session, armed in full, after one session was cancelled or
\* escalated and its listeners and timers were removed
C31_Witness ==
    /\ isAlertActive
    /\ session = 2
    /\ Cardinality(ShakeListeners) = 1
    /\ recognisers = 1
    /\ Len(beeps) = 1
    /\ Len(intervals) = 1
    /\ Len(cancels) + Len(dispatches) >= 1

---------------------------------------------------------------------------
(* Properties of the shake gesture.                                        *)

\* the cancellations the shake listeners made
ShakeCancels == {k \in 1..Len(cancels) : cancels[k].source = "shake"}

\* C32: a motion sample makes the shake listener call cancelAlert only when
\* its g-force is above 15, and at most once; two cancellations by shake in
\* the same session are more than 500 ms apart.
C32_ShakeAboveFifteenDebounced ==
    /\ sample.shakes > 0 => sample.force > shakeThreshold
    /\ sample.shakes <= 1
    /\ \A k, l \in ShakeCancels :
           (k < l /\ cancels[k].session = cancels[l].session)
               => cancels[l].time - cancels[k].time > shakeTimeout

\* a 16 g sample has cancelled session 1, and after it, within 500 ms, a
\* sample of exactly 15 g and no other cancellation
C32_Witness ==
    /\ Cardinality(ShakeCancels) = 1
    /\ \E k \in ShakeCancels :
           /\ cancels[k].wasActive
           /\ cancels[k].session = 1
           /\ now - cancels[k].time <= shakeTimeout
    /\ Len(cancels) = 1
    /\ sample.force = shakeThreshold
    /\ sample.shakes = 0

---------------------------------------------------------------------------
(* Properties of the voice command.                                        *)

\* the phrases of the fixed set that occur in the lower-cased transcript
PhrasesIn(said) ==
    {k \in 1..Len(cancelKeywords) :
        LET t == toLowerCase(said)
            p == cancelKeywords[k]
        IN  \E i \in 1..Len(t) :
                /\ i + Len(p) - 1 <= Len(t)
                /\ \A j \in 1..Len(p) : t[i + j - 1] = p[j]}

\* C33: a recognition result calls cancelAlert once when its lower-cased
\* transcript contains a phrase of the fixed set as a substring, however
\* many phrases it contains, and not at all when it contains none.
C33_VoiceCancelsOnPhrase ==
    voice.seen =>
        voice.cancelled = IF PhrasesIn(voice.said) # {} THEN 1 ELSE 0

\* "I'm OK" held two phrases and cancelled the session once
C33_Witness ==
    /\ voice.seen
    /\ voice.said = <<"I", "'", "m", " ", "O", "K">>
    /\ Cardinality(PhrasesIn(voice.said)) = 2
    /\ voice.cancelled = 1
    /\ Len(cancels) = 1
    /\ cancels[1].source = "voice"
    /\ cancels[1].wasActive

---------------------------------------------------------------------------
(* Properties of the deferred reset among later requests.                  *)

\* C34: the deferred reset of a cancellation never clears a lastImpactTime
\* that a request which started a session wrote after that cancellation.
C34_ResetSparesNewerRequest ==
    \A k \in 1..Len(resetLog) :
        ~\E r \in 1..Len(requests) :
              /\ ~requests[r].wasActive
              /\ requests[r].time > resetLog[k].cancelled
              /\ resetLog[k].before = requests[r].time
              /\ resetLog[k].after = 0

---------------------------------------------------------------------------
(* Properties of the calls of sendAlert.                                   *)

\* C35: every call of sendAlert was made for a session that was active when
\* sendEmergencyAlert began, with that session's severity and details, and
\* no two calls were made for the same session.
C35_OneDispatchPerActiveSession ==
    \A n \in 1..Len(dispatches) :
        /\ dispatches[n].wasActive
        /\ dispatches[n].session > 0
        /\ \E r \in StartedBy(dispatches[n].session) :
               /\ dispatches[n].severity = requests[r].severity
               /\ SameDetails(dispatches[n].details, requests[r].details)
        /\ \A m \in 1..Len(dispatches) :
               m # n => dispatches[m].session # dispatches[n].session

---------------------------------------------------------------------------
(* Properties of the sample that cancels by shake.                         *)

\* the latest cancellation made by a shake listener
LastShakeCancel == CHOOSE k \in ShakeCancels : \A l \in ShakeCancels : l <= k

\* C36: the motion sample whose shake cancelled an active session starts no
\* session itself, whichever of the sensor listener and the shake listener
\* was registered first.
C36_CancellingSampleStartsNothing ==
    (sample.shakes > 0 /\ cancels[LastShakeCancel].wasActive)
        => sample.total = 0

---------------------------------------------------------------------------
(* Properties of the sustained-force rule.                                 *)

\* the Impact events recorded so far that the sustained-force rule made
\* critical: their force is below criticalImpact
SustainedCriticals ==
    {k \in 1..Len(historyLog.added) :
        /\ historyLog.added[k].type = "impact"
        /\ historyLog.added[k].severity = "critical"
        /\ historyLog.added[k].force < criticalImpact}

\* C37: when the sustained-force rule makes a sample critical, every sample
\* analysed in the sustainedForceDuration before it had a force of at least
\* highImpact.
C37_SustainedMeansHighThroughout ==
    \A k \in SustainedCriticals :
        \A j \in 1..(k - 1) :
            ( /\ historyLog.added[j].type = "impact"
              /\ historyLog.added[j].timestamp >=
                     historyLog.added[k].timestamp - sustainedForceDuration )
            => historyLog.added[j].force >= highImpact

---------------------------------------------------------------------------
(* Properties of the tracker across stop and start.                        *)

\* C38: the first sample since start() that is recorded as an Impact event,
\* when its force is at least highImpact and below criticalImpact, has
\* duration 0 and severity high, whatever came before that start().
C38_TrackerFreshAfterStart ==
    ( /\ historyLog.added # << >>
      /\ historyLog.added[1].type = "impact"
      /\ historyLog.added[1].force >= highImpact
      /\ historyLog.added[1].force < criticalImpact )
    => /\ historyLog.added[1].duration = 0
       /\ historyLog.added[1].severity = "high"

---------------------------------------------------------------------------
(* Properties of the registrations start() makes.                          *)

\* C39: however the detector is started and stopped, one sensor callback
\* and one devicemotion listener at most are registered, and one audio
\* callback and one analyzeAudio loop at most, so that a motion event and
\* an audio frame are each analysed once.
C39_CallbacksRegisteredOnce ==
    /\ callbacks <= 1
    /\ Cardinality({i \in 1..Len(motionListeners) :
                       motionListeners[i].kind = "sensor"}) <= 1
    /\ audioCallbacks <= 1
    /\ audioLoops <= 1

====
